---------------------------- MODULE Spec2Model ----------------------------
(***************************************************************************)
(* A model of src/surge/ip-security.js: the one-shot completion guard and  *)
(* the watchdog, the orchestrator, and the three-tier risk resolver with   *)
(* its single-entry persisted cache.                                       *)
(*                                                                         *)
(* JavaScript runs every callback to completion, together with the promise *)
(* continuations it releases.  One action of this module is therefore one  *)
(* host callback (an HTTP response, a timer) and everything the script     *)
(* does synchronously in reaction to it.                                   *)
(***************************************************************************)
EXTENDS Integers, Sequences, FiniteSets, TLC

(***************************************************************************)
(* JavaScript values.  A missing object key reads as undefined.            *)
(***************************************************************************)
Undef  == [t |-> "undefined", n |-> 0, s |-> ""]
JNull  == [t |-> "null", n |-> 0, s |-> ""]
Num(k) == [t |-> "number", n |-> k, s |-> ""]
Str(x) == [t |-> "string", n |-> 0, s |-> x]

Bool(b) == [t |-> "boolean", n |-> IF b THEN 1 ELSE 0, s |-> ""]

\* ToBoolean: undefined, null, false, 0 and "" are falsy
Truthy(v) ==
  CASE v.t = "undefined" -> FALSE
    [] v.t = "null"      -> FALSE
    [] v.t = "number"    -> v.n # 0
    [] v.t = "boolean"   -> v.n # 0
    [] v.t = "string"    -> v.s # ""
    [] OTHER             -> TRUE

(***************************************************************************)
(* CONFIG                                                                  *)
(***************************************************************************)
DefaultScore == 50

RiskSources == {"IPQS", "ProxyCheck", "Scamalytics", "Default"}

(***************************************************************************)
(* Text held by the persistent store or returned by a provider, described  *)
(* by what JSON.parse makes of it:                                         *)
(*   absent   the key was never written ($persistentStore.read gives null) *)
(*   empty    the empty string                                             *)
(*   garbage  text JSON.parse throws on                                    *)
(*   null     the text "null"                                              *)
(*   scalar   a JSON number, string or boolean                             *)
(*   object   a JSON object; its keys are the other fields of the record   *)
(***************************************************************************)
CacheText(k, ip, score, source) ==
  [k |-> k, ip |-> ip, score |-> score, source |-> source]

NoCache == CacheText("absent", Undef, Undef, Undef)

\* JSON.stringify({ ip, score, source }): a key whose value is undefined is
\* dropped, and reads back as undefined
StringifyCache(ip, score, source) == CacheText("object", Str(ip), score, source)

\* JSON.parse throws a SyntaxError on these
ParseThrows(text) == text.k \in {"absent", "empty", "garbage"}

\* what `if (cached)` sees: null and "" are falsy
TextTruthy(text) == text.k \notin {"absent", "empty"}


(***************************************************************************)
(* parseArguments.  `arg` is the merged argument object; a key that was    *)
(* not supplied holds Absent.  event_delay is given by what parseFloat     *)
(* makes of it: NaN, or the number.                                        *)
(***************************************************************************)
Absent == "<undefined>"
NaN    == [nan |-> TRUE, n |-> 0]
Flt(k) == [nan |-> FALSE, n |-> k]

\* (arg.ipqs_key && arg.ipqs_key !== "null") ? arg.ipqs_key : ""
ipqsKeyOf(raw) == IF raw # Absent /\ raw # "" /\ raw # "null" THEN raw ELSE ""

\* (arg.lang && arg.lang !== "null") ? arg.lang : "en"
langOf(raw) == IF raw # Absent /\ raw # "" /\ raw # "null" THEN raw ELSE "en"

\* parseFloat(arg.event_delay) || 2: NaN and 0 are falsy
eventDelayOf(f) == IF f.nan \/ f.n = 0 THEN 2 ELSE f.n

parseArguments(arg, isPanel, isRequest) ==
  LET TYPE == IF ~isPanel /\ ~isRequest THEN "EVENT" ELSE arg.TYPE
  IN  [isEvent    |-> TYPE = "EVENT",
       ipqsKey    |-> ipqsKeyOf(arg.ipqs_key),
       lang       |-> langOf(arg.lang),
       eventDelay |-> eventDelayOf(arg.event_delay)]

(***************************************************************************)
(* HTTP tools.  A response body is [ok, data]: ok says whether the request *)
(* delivered text that JSON.parse accepts, data is the parsed value.       *)
(***************************************************************************)
\* httpJSON: try { r(JSON.parse(d)) } catch { r(null) }
httpJSON(body, null) == IF body.ok THEN body.data ELSE null

\* An HTML document is a sequence of tokens: "F" is the text "Fraud Score"
\* (in any case), a digit is itself, anything else is one non-digit character.
Digits == {"0", "1", "2", "3", "4", "5", "6", "7", "8", "9"}

DigitVal(c) ==
  CASE c = "0" -> 0 [] c = "1" -> 1 [] c = "2" -> 2 [] c = "3" -> 3
    [] c = "4" -> 4 [] c = "5" -> 5 [] c = "6" -> 6 [] c = "7" -> 7
    [] c = "8" -> 8 [] c = "9" -> 9

NullHtml   == [isNull |-> TRUE, text |-> <<>>]
Html(text) == [isNull |-> FALSE, text |-> text]

\* httpRaw: r(d || null); a failed request and an empty body both give null
httpRaw(body) == IF body.ok /\ body.data # <<>> THEN Html(body.data) ELSE NullHtml

Min(S) == CHOOSE x \in S : \A y \in S : x <= y

\* Number(m[1]) of html?.match(/Fraud Score[^0-9]*([0-9]{1,3})/i), or null.
\* The leftmost "Fraud Score" matches when a digit follows it anywhere:
\* [^0-9]* runs over every non-digit, a later "Fraud Score" included, and the
\* group takes at most three digits.
parseScamalyticsScore(html) ==
  IF html.isNull THEN JNull
  ELSE
    LET t  == html.text
        Fs == {i \in 1..Len(t) : t[i] = "F"}
    IN  IF Fs = {} THEN JNull
        ELSE
          LET Ds == {i \in (Min(Fs) + 1)..Len(t) : t[i] \in Digits}
          IN  IF Ds = {} THEN JNull
              ELSE
                LET d  == Min(Ds)
                    is(i) == i <= Len(t) /\ t[i] \in Digits
                    v1 == DigitVal(t[d])
                    v2 == IF is(d + 1) THEN 10 * v1 + DigitVal(t[d + 1]) ELSE v1
                    v3 == IF is(d + 1) /\ is(d + 2)
                            THEN 10 * v2 + DigitVal(t[d + 2]) ELSE v2
                IN  Num(v3)

(***************************************************************************)
(* riskText over CONFIG.riskLevels.  `score <= l.max` converts the score   *)
(* to a number: null is 0; undefined and a non-numeric string are NaN, for *)
(* which every comparison is false and the last level is taken.            *)
(***************************************************************************)
riskLevels ==
  << [max |-> 15,  label |-> "extremely clean", color |-> "#0D6E3D"],
     [max |-> 25,  label |-> "clean",           color |-> "#2E9F5E"],
     [max |-> 40,  label |-> "normal",          color |-> "#8BC34A"],
     [max |-> 50,  label |-> "slight risk",     color |-> "#FFC107"],
     [max |-> 70,  label |-> "risky",           color |-> "#FF9800"],
     [max |-> 100, label |-> "extreme risk",    color |-> "#F44336"] >>

\* riskText whose comparison is strict
riskText_strictBound(score) ==
  LET isNum == score.t \in {"number", "null"}
      n     == IF score.t = "number" THEN score.n ELSE 0
      hits  == {i \in 1..Len(riskLevels) : isNum /\ n < riskLevels[i].max}
      level == IF hits = {} THEN riskLevels[Len(riskLevels)] ELSE riskLevels[Min(hits)]
  IN  [label |-> level.label, color |-> level.color]

riskText(score) ==
  LET isNum == score.t \in {"number", "null"}
      n     == IF score.t = "number" THEN score.n ELSE 0
      hits  == {i \in 1..Len(riskLevels) : isNum /\ n <= riskLevels[i].max}
      level == IF hits = {} THEN riskLevels[Len(riskLevels)] ELSE riskLevels[Min(hits)]
  IN  [label |-> level.label, color |-> level.color]

(***************************************************************************)
(* The geo payloads and their normalizers.  One record stands for the JSON *)
(* object of any geo provider, with the fields the script reads of the     *)
(* three of them: api.ip.sb (ip, country_code, country, city, region,      *)
(* organization), ipinfo.io (country, city, region, org) and the bilibili  *)
(* services (data: addr, country, province, city, isp).  The text of org   *)
(* is asn followed by org.s, asn being its longest prefix that matches     *)
(* /^AS\d+\s*/.  The home-country name of line 560 is written "China" and  *)
(* the four carrier names of line 231 "Mobile", "Unicom", "Telecom" and    *)
(* "Broadcast".  The state holds a payload as its text, a tuple of the     *)
(* fields that differ between the documents of the model (<< >> is null),  *)
(* and JsonParse gives the object.                                         *)
(***************************************************************************)
NullData ==
  [isNull |-> TRUE, addr |-> Undef, country |-> Undef, province |-> Undef,
   city |-> Undef, isp |-> Undef]

NullRaw ==
  [isNull |-> TRUE, ip |-> Undef, country_code |-> Undef, country |-> Undef,
   city |-> Undef, region |-> Undef, organization |-> Undef, org |-> Undef,
   asn |-> "", data |-> NullData]

\* the text of an answer of the bilibili services, of api.ip.sb and of
\* ipinfo.io; a field that holds Absent is not in the document
Zone(addr, country, isp) == << "zone", addr, country, isp >>
GeoIp(ip, country_code, organization) == << "geoip", ip, country_code, organization >>
IpInfo(country, asn, org) == << "ipinfo", country, asn, org >>

\* JSON.parse of such a text
JsonParse(text) ==
  LET field(x) == IF x = Absent THEN Undef ELSE Str(x)
  IN  CASE text = << >> -> NullRaw
        [] text[1] = "zone" ->
             [NullRaw EXCEPT !.isNull = FALSE,
                !.data = [isNull |-> FALSE, addr |-> field(text[2]),
                          country |-> field(text[3]), province |-> Str("Province"),
                          city |-> Str(""), isp |-> field(text[4])]]
        [] text[1] = "geoip" ->
             [NullRaw EXCEPT !.isNull = FALSE, !.ip = field(text[2]),
                !.country_code = field(text[3]), !.country = Str("Country"),
                !.city = Str("City"), !.region = Str("Region"),
                !.organization = field(text[4])]
        [] OTHER ->
             [NullRaw EXCEPT !.isNull = FALSE, !.country = field(text[2]),
                !.city = Str("Town"), !.region = Str("State"),
                !.asn = IF text[3] = Absent THEN "" ELSE text[3],
                !.org = IF text[3] = Absent /\ text[4] = Absent
                          THEN Undef
                          ELSE Str(IF text[4] = Absent THEN "" ELSE text[4])]

\* the canonical record; isNull stands for a null in its place
NullRecord ==
  [isNull |-> TRUE, country_code |-> Undef, country_name |-> Undef,
   city |-> Undef, region |-> Undef, org |-> Undef]

\* a || b
orElse(a, b) == IF Truthy(a) THEN a ELSE b

\* lines 196-205
normalizeIpSb(data) ==
  IF data.isNull THEN NullRecord
  ELSE [isNull |-> FALSE, country_code |-> data.country_code,
        country_name |-> data.country, city |-> data.city,
        region |-> data.region, org |-> data.organization]

\* lines 211-220; data.org is truthy when its text is not empty, and
\* replace(/^AS\d+\s*/, "") leaves what follows asn
normalizeIpInfo(data) ==
  IF data.isNull \/ ~Truthy(data.country) THEN NullRecord
  ELSE [isNull |-> FALSE, country_code |-> data.country,
        country_name |-> data.country, city |-> data.city,
        region |-> data.region,
        org |-> IF data.org.t = "string" /\ (data.asn # "" \/ data.org.s # "")
                  THEN data.org ELSE Str("")]

\* lines 227-239
normalizeBilibili(data) ==
  LET d   == IF data.isNull THEN NullData ELSE data.data
      isp == orElse(d.isp, Str(""))
  IN  IF d.isNull \/ ~Truthy(d.country) THEN NullRecord
      ELSE [isNull |-> FALSE, country_code |-> JNull,
            country_name |-> d.country, city |-> orElse(d.city, Str("")),
            region |-> d.province,
            org |-> IF isp.s \in {"Mobile", "Unicom", "Telecom", "Broadcast"}
                      THEN Str("China " \o isp.s) ELSE isp]

\* lines 150-155, for the two-letter upper-case codes of the model: the
\* letters of the regional-indicator pair
flag(cc) ==
  IF ~Truthy(cc) THEN "" ELSE IF cc.s = "TW" THEN "CN" ELSE cc.s

\* lines 189-191: the flag and the parts that are truthy, in order
formatGeo(countryCode, parts) ==
  [flag |-> flag(countryCode), parts |-> SelectSeq(parts, Truthy)]

\* a sameLocation that compares the country codes alone
sameLocation_countryOnly(outInfo, ipv6Info) ==
  outInfo.country_code = ipv6Info.country_code

\* lines 445-446
sameLocation(outInfo, ipv6Info) ==
  /\ outInfo.country_code = ipv6Info.country_code
  /\ outInfo.org = ipv6Info.org

\* lines 433-464 with isMask false: the lines of the outbound section, each
\* with the name of its label (k) and what follows the label (v)
buildOutboundSection(outIP, outIPv6, outInfo, ipv6Info, isZh) ==
  LET ct(info)    == IF isZh THEN info.country_name ELSE info.country_code
      geoOf(info) == formatGeo(info.country_code, << info.city, info.region, ct(info) >>)
      orgOf(info) == orElse(info.org, Str("Unknown"))
  IN  IF ~Truthy(outIPv6)
        THEN << [k |-> "outIP", v |-> outIP],
                [k |-> "geo", v |-> geoOf(outInfo)],
                [k |-> "org", v |-> orgOf(outInfo)] >>
      ELSE IF sameLocation(outInfo, ipv6Info)
        THEN << [k |-> "outIP4", v |-> outIP],
                [k |-> "outIP6", v |-> outIPv6],
                [k |-> "geo", v |-> geoOf(outInfo)],
                [k |-> "org", v |-> orgOf(outInfo)] >>
        ELSE << [k |-> "outIP4", v |-> outIP],
                [k |-> "geo4", v |-> geoOf(outInfo)],
                [k |-> "org4", v |-> orgOf(outInfo)],
                [k |-> "", v |-> Str("")],
                [k |-> "outIP6", v |-> outIPv6],
                [k |-> "geo6", v |-> geoOf(ipv6Info)],
                [k |-> "org6", v |-> orgOf(ipv6Info)] >>

\* the zh branch without the ip.sb payload behind the ipinfo.io one
reconcile_noSbFallback(bili, ipInfo, sb, isZh) ==
  IF isZh /\ ~bili.isNull
    THEN [bili EXCEPT
            !.country_code = orElse(ipInfo.country_code, Str("")),
            !.org = IF bili.country_name = Str("China") THEN bili.org
                    ELSE orElse(ipInfo.org, Str(""))]
    ELSE IF ~ipInfo.isNull THEN ipInfo ELSE sb

\* the zh branch with the carrier of bilibili whatever the country
reconcile_alwaysBili(bili, ipInfo, sb, isZh) ==
  IF isZh /\ ~bili.isNull
    THEN [bili EXCEPT
            !.country_code = orElse(ipInfo.country_code, orElse(sb.country_code, Str("")))]
    ELSE IF ~ipInfo.isNull THEN ipInfo ELSE sb

\* lines 557-597, the record of one address from its three normalized
\* payloads.  The three addresses are reconciled by the same expressions;
\* the inbound one has no ipinfo.io payload (ipInfo is null), and in English
\* mode none has a bilibili payload.
reconcile(bili, ipInfo, sb, isZh) ==
  IF isZh /\ ~bili.isNull
    THEN [bili EXCEPT
            !.country_code = orElse(ipInfo.country_code, orElse(sb.country_code, Str(""))),
            !.org = IF bili.country_name = Str("China") THEN bili.org
                    ELSE orElse(ipInfo.org, orElse(sb.org, Str("")))]
    ELSE IF ~ipInfo.isNull THEN ipInfo ELSE sb

(***************************************************************************)
(* State.                                                                  *)
(***************************************************************************)
VARIABLES
  args,      \* the result of parseArguments, fixed for a run
  store,     \* $persistentStore: lastEvent, lastPolicy, riskCache
  finished,  \* the one-shot guard of done()
  emitted,   \* the payloads handed to $done, in order
  notes,     \* the number of $notification.post calls
  watchdog,  \* the setTimeout of line 117: "armed" or "fired"
  main,      \* the orchestrator (the async function of line 506)
  fetch,     \* the three promises of fetchIPs
  pol,       \* getPolicy
  risk,      \* getRiskScore
  typ,       \* getIPType
  geo,       \* the raw geo requests of the parallel batch
  issued,    \* the provider requests sent so far in this run
  io,        \* the $persistentStore.read and .write calls of this run, by key
  wire,      \* what each raw geo request of the batch is answered in this run
  prev,      \* the getRiskScore calls that returned before the current one
  hist       \* the checkIPChange calls and the policy discoveries of earlier runs

vars == << args, store, finished, emitted, notes, watchdog, main, fetch,
           pol, risk, typ, geo, issued, io, wire, prev, hist, wire >>

\* Everything a callback of the script can change, as one value: the
\* operators below map a heap to the heap the code leaves.
Heap ==
  [store |-> store, finished |-> finished, emitted |-> emitted, notes |-> notes,
   main |-> main, fetch |-> fetch, pol |-> pol, risk |-> risk, typ |-> typ,
   geo |-> geo, issued |-> issued, io |-> io]

Becomes(h) ==
  \E x \in {h} :
    /\ store' = x.store
    /\ finished' = x.finished
    /\ emitted' = x.emitted
    /\ notes' = x.notes
    /\ main' = x.main
    /\ fetch' = x.fetch
    /\ pol' = x.pol
    /\ risk' = x.risk
    /\ typ' = x.typ
    /\ geo' = x.geo
    /\ issued' = x.issued
    /\ io' = x.io

\* $httpClient.get / $httpAPI: the request leaves the script
Send(h, req) == [h EXCEPT !.issued = @ \cup {req}]

\* no key of CONFIG.storeKeys has been read or written yet
NoIO == [k \in {"lastEvent", "lastPolicy", "riskCache"} |-> [r |-> 0, w |-> 0]]

\* $persistentStore.read(CONFIG.storeKeys[key]); the text read is h.store[key]
read(h, key) == [h EXCEPT !.io[key].r = @ + 1]

\* $persistentStore.write(text, CONFIG.storeKeys[key])
write(h, key, text) == [h EXCEPT !.store[key] = text, !.io[key].w = @ + 1]

(***************************************************************************)
(* done(o): the one-shot guard around $done.                               *)
(***************************************************************************)
\* done without its guard: every call reaches $done
done_unguarded(h, o) == [h EXCEPT !.finished = TRUE, !.emitted = Append(@, o)]

\* done whose guard does not stop a later call: the last payload stands
done_lastWins(h, o) == [h EXCEPT !.finished = TRUE, !.emitted = << o >>]

done(h, o) ==
  IF h.finished THEN h
  ELSE [h EXCEPT !.finished = TRUE, !.emitted = Append(@, o)]

\* the object handed to $done: its title, its icon-color and the lines of
\* its content, and which of the four places of the script made it
Payload(kind, title, color) ==
  [kind |-> kind, title |-> title, color |-> color, content |-> << >>]

TimeoutResult    == Payload("timeout", "timeout", "#9E9E9E")
AcquisitionFailed == Payload("acquisition-failed", "ip acquisition failed", "#9E9E9E")
EmptyResult      == Payload("empty", "", "")

(***************************************************************************)
(* getRiskScore.                                                           *)
(***************************************************************************)
NullIpqs  == [isNull |-> TRUE, success |-> FALSE, fraud_score |-> Undef]
NullProxy == [isNull |-> TRUE, key |-> "", risk |-> Undef]

NoResult == [score |-> Undef, source |-> Undef]

\* pc: "idle" before the call, "ipqs" awaiting Tier 1, "all" awaiting
\* Promise.all of Tier 2 and Tier 3, "done" returned, "threw" rejected.
\* data, proxyData and scamHtml are the function's locals; hit and first
\* record how the call went (a cache hit; which of the two arrived first).
IdleRisk ==
  [pc |-> "idle", ip |-> "", hit |-> FALSE,
   data      |-> [got |-> FALSE, v |-> NullIpqs],
   proxyData |-> [got |-> FALSE, v |-> NullProxy],
   scamHtml  |-> [got |-> FALSE, v |-> NullHtml],
   first |-> "", result |-> NoResult]

\* a probe that takes any cached record for the queried address
cacheProbe_anyAddress(cached, ip) ==
  IF ParseThrows(cached) THEN "exception"
  ELSE IF cached.k = "null" THEN "exception"
  ELSE IF cached.k = "object" THEN "hit"
  ELSE "miss"

\* lines 303-307, the body of the try: c = JSON.parse(cached); c.ip === ip
cacheProbe(cached, ip) ==
  IF ParseThrows(cached) THEN "exception"
  ELSE IF cached.k = "null" THEN "exception"       \* c.ip of null: TypeError
  ELSE IF cached.k = "object" /\ cached.ip = Str(ip) THEN "hit"
  ELSE "miss"

\* the cache check without its try/catch
riskCacheCheck_noCatch(cached, ip) ==
  IF ~TextTruthy(cached) THEN "miss"
  ELSE IF cached.k = "garbage" \/ cached.k = "null" THEN "exception"
  ELSE IF cached.k = "object" /\ cached.ip = Str(ip) THEN "hit"
  ELSE "miss"

\* lines 300-309: if (cached) { try { ... } catch (e) {} }
riskCacheCheck(cached, ip) ==
  IF ~TextTruthy(cached) THEN "miss"
  ELSE IF cacheProbe(cached, ip) = "exception" THEN "miss"
  ELSE cacheProbe(cached, ip)

\* saveAndReturn that returns without writing the cache
saveAndReturn_noPersist(h, score, source) ==
  [h EXCEPT !.risk.result = [score |-> score, source |-> Str(source)],
            !.risk.pc = "done"]

\* lines 311-315
saveAndReturn(h, score, source) ==
  [write(h, "riskCache", StringifyCache(h.risk.ip, score, Str(source)))
     EXCEPT !.risk.result = [score |-> score, source |-> Str(source)],
            !.risk.pc = "done"]

\* lines 327-330: both requests leave before either result is looked at
riskTier23(h) ==
  [Send(Send(h, "proxycheck"), "scamalytics") EXCEPT !.risk.pc = "all"]

\* getRiskScore that asks Tier 1 without looking at the credential
getRiskScore_noKeyCheck(h, ip) ==
  LET cached == h.store.riskCache
      probe  == riskCacheCheck(cached, ip)
      h1     == read([h EXCEPT !.risk = [IdleRisk EXCEPT !.ip = ip]], "riskCache")
  IN  CASE probe = "hit" ->
             [h1 EXCEPT !.risk.pc = "done", !.risk.hit = TRUE,
                        !.risk.result = [score |-> cached.score,
                                         source |-> cached.source]]
        [] probe = "exception" -> [h1 EXCEPT !.risk.pc = "threw"]
        [] OTHER -> [Send(h1, "ipqs") EXCEPT !.risk.pc = "ipqs"]

\* lines 298-330, up to the first await
getRiskScore(h, ip) ==
  LET cached == h.store.riskCache
      probe  == riskCacheCheck(cached, ip)
      h1     == read([h EXCEPT !.risk = [IdleRisk EXCEPT !.ip = ip]], "riskCache")
  IN  CASE probe = "hit" ->
             [h1 EXCEPT !.risk.pc = "done", !.risk.hit = TRUE,
                        !.risk.result = [score |-> cached.score,
                                         source |-> cached.source]]
        [] probe = "exception" -> [h1 EXCEPT !.risk.pc = "threw"]
        [] OTHER ->
             IF args.ipqsKey # ""
               THEN [Send(h1, "ipqs") EXCEPT !.risk.pc = "ipqs"]
               ELSE riskTier23(h1)

\* a Tier 1 answer taken for a success on its flag alone
ipqsSucceeded_flagOnly(data) == ~data.isNull /\ data.success

\* data?.success && data?.fraud_score !== undefined
ipqsSucceeded(data) == ~data.isNull /\ data.success /\ data.fraud_score # Undef

\* Tier 1 that persists a provisional default before it asks the other tiers
getRiskScore_ipqs_savesFirst(h, data) ==
  LET h1 == [h EXCEPT !.risk.data = [got |-> TRUE, v |-> data]]
  IN  IF ipqsSucceeded(data)
        THEN saveAndReturn(h1, data.fraud_score, "IPQS")
        ELSE riskTier23(write(h1, "riskCache",
                              StringifyCache(h1.risk.ip, Num(DefaultScore), Str("Default"))))

\* lines 319-330, from the Tier 1 response on
getRiskScore_ipqs(h, data) ==
  LET h1 == [h EXCEPT !.risk.data = [got |-> TRUE, v |-> data]]
  IN  IF ipqsSucceeded(data)
        THEN saveAndReturn(h1, data.fraud_score, "IPQS")
        ELSE riskTier23(h1)

\* proxyData?.[ip]?.risk
proxyRisk(proxyData, ip) ==
  IF proxyData.isNull \/ proxyData.key # ip THEN Undef ELSE proxyData.risk

\* the last step with Tier 3 looked at before Tier 2
getRiskScore_all_scamFirst(h) ==
  LET r     == proxyRisk(h.risk.proxyData.v, h.risk.ip)
      score == parseScamalyticsScore(h.risk.scamHtml.v)
  IN  IF score # JNull THEN saveAndReturn(h, score, "Scamalytics")
      ELSE IF r # Undef THEN saveAndReturn(h, r, "ProxyCheck")
      ELSE saveAndReturn(h, Num(DefaultScore), "Default")

\* the last step decided by the result of the pair that arrived first
getRiskScore_all_firstArrival(h) ==
  LET r     == proxyRisk(h.risk.proxyData.v, h.risk.ip)
      score == parseScamalyticsScore(h.risk.scamHtml.v)
  IN  IF h.risk.first = "scam" /\ score # JNull
        THEN saveAndReturn(h, score, "Scamalytics")
      ELSE IF r # Undef THEN saveAndReturn(h, r, "ProxyCheck")
      ELSE IF score # JNull THEN saveAndReturn(h, score, "Scamalytics")
      ELSE saveAndReturn(h, Num(DefaultScore), "Default")

\* lines 332-343, once Promise.all has both results
getRiskScore_all(h) ==
  LET r     == proxyRisk(h.risk.proxyData.v, h.risk.ip)
      score == parseScamalyticsScore(h.risk.scamHtml.v)
  IN  IF r # Undef THEN saveAndReturn(h, r, "ProxyCheck")
      ELSE IF score # JNull THEN saveAndReturn(h, score, "Scamalytics")
      ELSE saveAndReturn(h, Num(DefaultScore), "Default")

\* a result of Promise.all arrives; the function goes on when both are there
riskSettle(h) ==
  IF h.risk.proxyData.got /\ h.risk.scamHtml.got THEN getRiskScore_all(h) ELSE h

getRiskScore_proxy(h, proxyData) ==
  riskSettle([h EXCEPT !.risk.proxyData = [got |-> TRUE, v |-> proxyData],
                       !.risk.first = IF @ = "" THEN "proxy" ELSE @])

getRiskScore_scam(h, scamHtml) ==
  riskSettle([h EXCEPT !.risk.scamHtml = [got |-> TRUE, v |-> scamHtml],
                       !.risk.first = IF @ = "" THEN "scam" ELSE @])

(***************************************************************************)
(* getPolicy.  The answer of /v1/requests/recent is given by the place of  *)
(* its newest request whose URL matches the pattern (pos, 0 when none      *)
(* matches or the answer has no request list) and that request's           *)
(* policyName: slice(0, limit).find(...) finds it exactly when             *)
(* pos <= limit.                                                           *)
(***************************************************************************)
FirstSearchLimit  == 10
SecondSearchLimit == 5

NoRecent == [pos |-> 0, policyName |-> Undef]

\* lines 253-257: hit?.policyName || null
findPolicyInRecent(res, limit) ==
  IF res.pos >= 1 /\ res.pos <= limit /\ Truthy(res.policyName)
    THEN res.policyName ELSE JNull

\* pc: "first" and "second" await the two searches, "wait" the retry delay;
\* res1 and res2 are what the two searches were answered
IdlePolicy == [pc |-> "idle", res1 |-> NoRecent, res2 |-> NoRecent, result |-> Undef]

\* line 264, up to the await
getPolicy(h) == [Send(h, "recent-1") EXCEPT !.pol = [IdlePolicy EXCEPT !.pc = "first"]]

\* the first search without the write of line 267
getPolicy_first_noPersist(h, res) ==
  LET policy == findPolicyInRecent(res, FirstSearchLimit)
  IN  IF Truthy(policy)
        THEN [h EXCEPT !.pol = [@ EXCEPT !.pc = "done", !.res1 = res,
                                         !.result = policy]]
        ELSE [h EXCEPT !.pol.pc = "wait", !.pol.res1 = res]

\* lines 264-273
getPolicy_first(h, res) ==
  LET policy == findPolicyInRecent(res, FirstSearchLimit)
  IN  IF Truthy(policy)
        THEN [write(h, "lastPolicy", policy)
                EXCEPT !.pol = [@ EXCEPT !.pc = "done", !.res1 = res,
                                         !.result = policy]]
        ELSE [h EXCEPT !.pol.pc = "wait", !.pol.res1 = res]

\* line 275, after wait(CONFIG.policyRetryDelay)
getPolicy_retry(h) == [Send(h, "recent-2") EXCEPT !.pol.pc = "second"]

\* the second search without the fallback of lines 283-287
getPolicy_second_noFallback(h, res) ==
  LET policy == findPolicyInRecent(res, SecondSearchLimit)
      h1     == [h EXCEPT !.pol.pc = "done", !.pol.res2 = res]
  IN  IF Truthy(policy)
        THEN [write(h1, "lastPolicy", policy) EXCEPT !.pol.result = policy]
        ELSE [h1 EXCEPT !.pol.result = Str("Unknown")]

\* the second search that persists whatever name it returns
getPolicy_second_persistsResult(h, res) ==
  LET policy     == findPolicyInRecent(res, SecondSearchLimit)
      lastPolicy == h.store.lastPolicy
      h1         == [h EXCEPT !.pol.pc = "done", !.pol.res2 = res]
      h2         == read(h1, "lastPolicy")
  IN  IF Truthy(policy)
        THEN [write(h1, "lastPolicy", policy) EXCEPT !.pol.result = policy]
        ELSE IF Truthy(lastPolicy)
          THEN [write(h2, "lastPolicy", lastPolicy) EXCEPT !.pol.result = lastPolicy]
          ELSE [write(h2, "lastPolicy", Str("Unknown"))
                  EXCEPT !.pol.result = Str("Unknown")]

\* lines 275-290
getPolicy_second(h, res) ==
  LET policy     == findPolicyInRecent(res, SecondSearchLimit)
      lastPolicy == h.store.lastPolicy
      h1         == [h EXCEPT !.pol.pc = "done", !.pol.res2 = res]
      h2         == read(h1, "lastPolicy")
  IN  IF Truthy(policy)
        THEN [write(h1, "lastPolicy", policy) EXCEPT !.pol.result = policy]
        ELSE IF Truthy(lastPolicy)
          THEN [h2 EXCEPT !.pol.result = lastPolicy]
          ELSE [h2 EXCEPT !.pol.result = Str("Unknown")]

(***************************************************************************)
(* getIPType.  The /v1/card document is a sequence of tokens: "R" is a     *)
(* residential keyword, "B" a broadcast keyword, anything else is other    *)
(* text.                                                                   *)
(***************************************************************************)
NullInfo == [isNull |-> TRUE, isResidential |-> Undef, isBroadcast |-> Undef]

\* pc: "info" awaits /v1/info, "card" awaits /v1/card; info and html are the
\* function's locals
IdleType == [pc |-> "idle", info |-> NullInfo, html |-> NullHtml,
             result |-> [ipType |-> "", ipSrc |-> ""]]

\* line 353, up to the await
getIPType(h) == [Send(h, "ippure-info") EXCEPT !.typ = [IdleType EXCEPT !.pc = "info"]]

\* Tier 1 taken for successful only when isResidential is true
getIPType_info_truthyOnly(h, info) ==
  IF ~info.isNull /\ Truthy(info.isResidential)
    THEN [h EXCEPT !.typ.pc = "done", !.typ.info = info,
                   !.typ.result =
                     [ipType |-> "residential",
                      ipSrc  |-> IF Truthy(info.isBroadcast)
                                   THEN "broadcast" ELSE "native"]]
    ELSE [Send(h, "ippure-card") EXCEPT !.typ.pc = "card", !.typ.info = info]

\* lines 353-364
getIPType_info(h, info) ==
  IF ~info.isNull /\ info.isResidential # Undef
    THEN [h EXCEPT !.typ.pc = "done", !.typ.info = info,
                   !.typ.result =
                     [ipType |-> IF Truthy(info.isResidential)
                                   THEN "residential" ELSE "datacenter",
                      ipSrc  |-> IF Truthy(info.isBroadcast)
                                   THEN "broadcast" ELSE "native"]]
    ELSE [Send(h, "ippure-card") EXCEPT !.typ.pc = "card", !.typ.info = info]

\* Tier 2 that reads a missing document like one without keywords
getIPType_card_guesses(h, html) ==
  [h EXCEPT !.typ.pc = "done", !.typ.html = html,
            !.typ.result =
              [ipType |-> IF \E i \in 1..Len(html.text) : html.text[i] = "R"
                            THEN "residential" ELSE "datacenter",
               ipSrc  |-> IF \E i \in 1..Len(html.text) : html.text[i] = "B"
                            THEN "broadcast" ELSE "native"]]

\* lines 364-373
getIPType_card(h, html) ==
  IF ~html.isNull
    THEN [h EXCEPT !.typ.pc = "done", !.typ.html = html,
                   !.typ.result =
                     [ipType |-> IF \E i \in 1..Len(html.text) : html.text[i] = "R"
                                   THEN "residential" ELSE "datacenter",
                      ipSrc  |-> IF \E i \in 1..Len(html.text) : html.text[i] = "B"
                                   THEN "broadcast" ELSE "native"]]
    ELSE [h EXCEPT !.typ.pc = "done", !.typ.html = html,
                   !.typ.result = [ipType |-> "unknown", ipSrc |-> "unknown"]]

(***************************************************************************)
(* fetchIPs.                                                               *)
(***************************************************************************)
NullEnter == << >>
NullExit  == << >>

\* the addresses of the model that contain a colon
ColonAddresses == {"2001:db8::1", "2001:db8::2"}

\* v6ip.includes(":")
includesColon(ip) == ip.s \in ColonAddresses

\* x || null
orNull(v) == IF Truthy(v) THEN v ELSE JNull

\* exit6 is the promise of the race and won the one of its two promises that
\* settled it ("response" or "timer"); v6resp and v6timer say whether the
\* response and the timer of the race have come
IdleFetch ==
  [enter |-> [got |-> FALSE, v |-> NullEnter],
   exit  |-> [got |-> FALSE, v |-> NullExit],
   exit6 |-> [got |-> FALSE, v |-> NullExit], won |-> "",
   v6resp |-> FALSE, v6timer |-> FALSE]

\* lines 381-388, up to the await
fetchIPs(h) ==
  [Send(Send(Send(h, "inbound"), "outbound"), "outbound6")
     EXCEPT !.fetch = IdleFetch, !.main.pc = "fetch"]

\* the result of fetchIPs without the test for a colon
fetchIPs_result_noColonGuard(f) ==
  LET enter   == JsonParse(f.enter.v)
      exit    == JsonParse(f.exit.v)
      exit6   == JsonParse(f.exit6.v)
      v6ip    == IF exit6.isNull THEN Undef ELSE exit6.ip
      hasIPv6 == Truthy(v6ip)
  IN  [inIP    |-> IF enter.isNull THEN JNull ELSE orNull(enter.data.addr),
       outIP   |-> IF exit.isNull THEN JNull ELSE orNull(exit.ip),
       outIPv6 |-> IF hasIPv6 THEN v6ip ELSE JNull,
       inRaw   |-> f.enter.v,
       outRaw  |-> f.exit.v,
       v6Raw   |-> IF hasIPv6 THEN f.exit6.v ELSE NullExit]

\* lines 390-402, of the three parsed answers
fetchIPs_return(f, enter, exit, exit6) ==
  LET v6ip    == IF exit6.isNull THEN Undef ELSE exit6.ip
      hasIPv6 == Truthy(v6ip) /\ includesColon(v6ip)
  IN  [inIP    |-> IF enter.isNull THEN JNull ELSE orNull(enter.data.addr),
       outIP   |-> IF exit.isNull THEN JNull ELSE orNull(exit.ip),
       outIPv6 |-> IF hasIPv6 THEN v6ip ELSE JNull,
       inRaw   |-> f.enter.v,
       outRaw  |-> f.exit.v,
       v6Raw   |-> IF hasIPv6 THEN f.exit6.v ELSE NullExit]

\* lines 380-402: what fetchIPs returns once its three promises have settled
fetchIPs_result(f) ==
  fetchIPs_return(f, JsonParse(f.enter.v), JsonParse(f.exit.v), JsonParse(f.exit6.v))

(***************************************************************************)
(* checkIPChange.                                                          *)
(***************************************************************************)
SnapText(k, inIP, outIP, outIP6) ==
  [k |-> k, inIP |-> inIP, outIP |-> outIP, outIP6 |-> outIP6]

NoSnapshot == SnapText("absent", Undef, Undef, Undef)

\* a snapshot written with "" in place of a missing v6 address
StringifySnapshot_emptyV6(inIP, outIP, outIPv6) ==
  [k |-> "object", inIP |-> inIP, outIP |-> outIP,
   outIP6 |-> IF outIPv6 = JNull THEN Str("") ELSE outIPv6]

\* JSON.stringify({ inIP, outIP, outIP6: outIPv6 })
StringifySnapshot(inIP, outIP, outIPv6) == SnapText("object", inIP, outIP, outIPv6)

\* lines 413-417: lastData after the guarded parse; {} when nothing was
\* read or the parse threw
lastDataOf(lastEvent) ==
  IF TextTruthy(lastEvent) /\ ~ParseThrows(lastEvent)
    THEN lastEvent
    ELSE SnapText("object", Undef, Undef, Undef)

\* checkIPChange that reports a change without writing the snapshot
checkIPChange_noWrite(h, inIP, outIP, outIPv6) ==
  IF ~args.isEvent THEN [h |-> h, ret |-> "true"]
  ELSE
    LET lastData == lastDataOf(h.store.lastEvent)
        h1       == read(h, "lastEvent")
    IN  IF lastData.k = "null" THEN [h |-> h1, ret |-> "threw"]
        ELSE IF /\ inIP = lastData.inIP
                /\ outIP = lastData.outIP
                /\ outIPv6 = lastData.outIP6
          THEN [h |-> h1, ret |-> "false"]
          ELSE [h |-> h1, ret |-> "true"]

\* checkIPChange without the early return of line 411
checkIPChange_anyTrigger(h, inIP, outIP, outIPv6) ==
  LET lastData == lastDataOf(h.store.lastEvent)
      h1       == read(h, "lastEvent")
  IN  IF lastData.k = "null" THEN [h |-> h1, ret |-> "threw"]
      ELSE IF /\ inIP = lastData.inIP
              /\ outIP = lastData.outIP
              /\ outIPv6 = lastData.outIP6
        THEN [h |-> h1, ret |-> "false"]
        ELSE [h |-> write(h1, "lastEvent", StringifySnapshot(inIP, outIP, outIPv6)),
              ret |-> "true"]

\* lines 410-427; ret is "true", "false", or "threw" for the TypeError of
\* reading a property of null at line 419
checkIPChange(h, inIP, outIP, outIPv6) ==
  IF ~args.isEvent THEN [h |-> h, ret |-> "true"]
  ELSE
    LET lastData == lastDataOf(h.store.lastEvent)
        h1       == read(h, "lastEvent")
    IN  IF lastData.k = "null" THEN [h |-> h1, ret |-> "threw"]
        ELSE IF /\ inIP = lastData.inIP
                /\ outIP = lastData.outIP
                /\ outIPv6 = lastData.outIP6
          THEN [h |-> h1, ret |-> "false"]
          ELSE [h |-> write(h1, "lastEvent", StringifySnapshot(inIP, outIP, outIPv6)),
                ret |-> "true"]

(***************************************************************************)
(* The orchestrator.                                                       *)
(***************************************************************************)
GeoSlots == {"inSb", "outIpInfo", "outBili", "v6IpInfo", "v6Bili"}

NullGeo == << >>

IdleGeo == [g \in GeoSlots |-> [st |-> "none", v |-> NullGeo]]

\* pc: "delay" awaits the event delay, "fetch" awaits fetchIPs, "batch"
\* awaits Promise.all(queries), "returned" and "threw" end the function
IdleMain ==
  [pc |-> "start", inIP |-> JNull, outIP |-> JNull, outIPv6 |-> JNull,
   inRaw |-> NullEnter, outRaw |-> NullExit, v6Raw |-> NullExit]

\* lines 533-545: the array of queries, in the order they are pushed
queries(isZh, hasV6) ==
  << "getPolicy", "getRiskScore", "getIPType", "inSb", "outIpInfo" >>
    \o (IF isZh THEN << "outBili" >> ELSE << >>)
    \o (IF hasV6 THEN << "v6IpInfo" >> ELSE << >>)
    \o (IF hasV6 /\ isZh THEN << "v6Bili" >> ELSE << >>)

\* the raw geo requests among them
geoQueries(isZh, hasV6) ==
  LET q == queries(isZh, hasV6) IN {q[i] : i \in 4..Len(q)}

\* a response stored at the first place of the array still pending
geoResolve_arrivalOrder(h, g, v) ==
  LET q    == queries(args.lang = "zh", Truthy(h.main.outIPv6))
      open == {i \in 4..Len(q) : h.geo[q[i]].st = "pending"}
  IN  [h EXCEPT !.geo[q[Min(open)]] = [st |-> "got", v |-> v]]

\* Promise.all: the value a query resolves with is stored at the place of
\* that query in the array
geoResolve(h, g, v) == [h EXCEPT !.geo[g] = [st |-> "got", v |-> v]]

\* results[i] of line 547, for the place i (from 0) of a raw geo request;
\* undefined past the end of the array
resultAt(h, i) ==
  LET q == queries(args.lang = "zh", Truthy(h.main.outIPv6))
  IN  IF i + 1 > Len(q) THEN NullGeo ELSE h.geo[q[i + 1]].v

sendGeo(h, slots) ==
  [h EXCEPT !.geo = [g \in GeoSlots |->
                       IF g \in slots THEN [st |-> "pending", v |-> NullGeo] ELSE @[g]],
            !.issued = @ \cup slots]

\* lines 529-547, up to the await: every query is started in call order
main_startBatch(h) ==
  LET h1 == getPolicy(h)
      h2 == getRiskScore(h1, h.main.outIP.s)
      h3 == getIPType(h2)
      h4 == sendGeo(h3, geoQueries(args.lang = "zh", Truthy(h.main.outIPv6)))
  IN  IF h4.risk.pc = "threw"
        THEN [h4 EXCEPT !.main.pc = "threw"]
        ELSE [h4 EXCEPT !.main.pc = "batch"]

\* the orchestrator without the return of lines 518-521
main_afterFetch_noShortCircuit(h) ==
  LET r  == fetchIPs_result(h.fetch)
      h1 == [h EXCEPT !.main.inIP = r.inIP, !.main.outIP = r.outIP,
                      !.main.outIPv6 = r.outIPv6, !.main.inRaw = r.inRaw,
                      !.main.outRaw = r.outRaw, !.main.v6Raw = r.v6Raw,
                      !.fetch.enter = IdleFetch.enter,
                      !.fetch.exit = IdleFetch.exit]
      c  == checkIPChange(h1, r.inIP, r.outIP, r.outIPv6)
  IN  CASE c.ret = "threw" -> [c.h EXCEPT !.main.pc = "threw"]
        [] c.ret = "false" -> [done(c.h, EmptyResult) EXCEPT !.main.pc = "returned"]
        [] OTHER           -> main_startBatch(c.h)

\* the orchestrator that starts the batch whatever checkIPChange returns
main_afterFetch_ignoresDetector(h) ==
  LET r  == fetchIPs_result(h.fetch)
      h1 == [h EXCEPT !.main.inIP = r.inIP, !.main.outIP = r.outIP,
                      !.main.outIPv6 = r.outIPv6, !.main.inRaw = r.inRaw,
                      !.main.outRaw = r.outRaw, !.main.v6Raw = r.v6Raw,
                      !.fetch.enter = IdleFetch.enter,
                      !.fetch.exit = IdleFetch.exit]
  IN  IF ~Truthy(r.inIP) \/ ~Truthy(r.outIP)
        THEN [done(h1, AcquisitionFailed) EXCEPT !.main.pc = "returned"]
        ELSE
          LET c == checkIPChange(h1, r.inIP, r.outIP, r.outIPv6)
          IN  CASE c.ret = "threw" -> [c.h EXCEPT !.main.pc = "threw"]
                [] OTHER           -> main_startBatch(c.h)

\* lines 516-527; fetchIPs has returned: of its locals the model keeps the
\* value of the race, from which outIPv6 and v6Raw were made
main_afterFetch(h) ==
  LET r  == fetchIPs_result(h.fetch)
      h1 == [h EXCEPT !.main.inIP = r.inIP, !.main.outIP = r.outIP,
                      !.main.outIPv6 = r.outIPv6, !.main.inRaw = r.inRaw,
                      !.main.outRaw = r.outRaw, !.main.v6Raw = r.v6Raw,
                      !.fetch.enter = IdleFetch.enter,
                      !.fetch.exit = IdleFetch.exit]
  IN  IF ~Truthy(r.inIP) \/ ~Truthy(r.outIP)
        THEN [done(h1, AcquisitionFailed) EXCEPT !.main.pc = "returned"]
        ELSE
          LET c == checkIPChange(h1, r.inIP, r.outIP, r.outIPv6)
          IN  CASE c.ret = "threw" -> [c.h EXCEPT !.main.pc = "threw"]
                [] c.ret = "false" -> [done(c.h, EmptyResult) EXCEPT !.main.pc = "returned"]
                [] OTHER           -> main_startBatch(c.h)

\* lines 548-597: inInfo, outInfo and ipv6Info, which the function makes
\* of its results and of the raw payloads of fetchIPs
geoRecords(h) ==
  LET isZh         == args.lang = "zh"
      hasV6        == Truthy(h.main.outIPv6)
      v6Idx        == IF isZh THEN 6 ELSE 5
      inSbRaw      == JsonParse(resultAt(h, 3))
      outIpInfoRaw == JsonParse(resultAt(h, 4))
      outBiliRaw   == IF isZh THEN JsonParse(resultAt(h, 5)) ELSE NullRaw
      v6IpInfoRaw  == IF hasV6 THEN JsonParse(resultAt(h, v6Idx)) ELSE NullRaw
      v6BiliRaw    == IF isZh /\ hasV6 THEN JsonParse(resultAt(h, v6Idx + 1)) ELSE NullRaw
  IN  [inInfo   |-> reconcile(normalizeBilibili(JsonParse(h.main.inRaw)), NullRecord,
                              normalizeIpSb(inSbRaw), isZh),
       outInfo  |-> reconcile(normalizeBilibili(outBiliRaw),
                              normalizeIpInfo(outIpInfoRaw),
                              normalizeIpSb(JsonParse(h.main.outRaw)), isZh),
       ipv6Info |-> IF hasV6
                      THEN reconcile(normalizeBilibili(v6BiliRaw),
                                     normalizeIpInfo(v6IpInfoRaw),
                                     normalizeIpSb(JsonParse(h.main.v6Raw)), isZh)
                      ELSE NullRecord]

\* lines 469-485 with isMask false; context holds inInfo, outInfo, ipv6Info
buildPanelContent(h, context) ==
  LET isZh     == args.lang = "zh"
      ct(info) == IF isZh THEN info.country_name ELSE info.country_code
  IN  << [k |-> "risk", v |-> [score  |-> h.risk.result.score,
                               label  |-> riskText(h.risk.result.score).label,
                               source |-> h.risk.result.source]],
         [k |-> "", v |-> Str("")],
         [k |-> "type", v |-> h.typ.result],
         [k |-> "", v |-> Str("")],
         [k |-> "inIP", v |-> h.main.inIP],
         [k |-> "geo", v |-> formatGeo(context.inInfo.country_code,
                                       << context.inInfo.city, context.inInfo.region,
                                          ct(context.inInfo) >>)],
         [k |-> "org", v |-> orElse(context.inInfo.org, Str("Unknown"))],
         [k |-> "", v |-> Str("")] >>
      \o buildOutboundSection(h.main.outIP, h.main.outIPv6, context.outInfo,
                              context.ipv6Info, isZh)

\* a notification sent whatever the trigger of the run
main_afterBatch_alwaysNotifies(h) ==
  LET riskResult == riskText(h.risk.result.score)
      h1 == [h EXCEPT !.notes = @ + 1]
  IN  IF args.isEvent
        THEN [done(h1, EmptyResult) EXCEPT !.main.pc = "returned"]
        ELSE [done(h1, [Payload("panel", h.pol.result.s, riskResult.color)
                          EXCEPT !.content = buildPanelContent(h1, geoRecords(h1))])
                EXCEPT !.main.pc = "returned"]

\* lines 491-503
sendNetworkChangeNotification(h) == [h EXCEPT !.notes = @ + 1]

\* lines 548-617
main_afterBatch(h) ==
  LET riskResult == riskText(h.risk.result.score)
  IN  IF args.isEvent
        THEN [done(sendNetworkChangeNotification(h), EmptyResult)
                EXCEPT !.main.pc = "returned"]
        ELSE [done(h, [Payload("panel", h.pol.result.s, riskResult.color)
                         EXCEPT !.content = buildPanelContent(h, geoRecords(h))])
                EXCEPT !.main.pc = "returned"]

\* Promise.all(queries): every query has resolved
batchReady(h) ==
  /\ h.pol.pc = "done"
  /\ h.risk.pc = "done"
  /\ h.typ.pc = "done"
  /\ \A g \in GeoSlots : h.geo[g].st # "pending"

\* the await of line 516: fetchIPs returns when its three promises have
fetchSettle(h) ==
  IF h.main.pc = "fetch" /\ h.fetch.enter.got /\ h.fetch.exit.got /\ h.fetch.exit6.got
    THEN main_afterFetch(h) ELSE h

\* the await of line 547
batchSettle(h) ==
  IF h.main.pc = "batch" /\ batchReady(h) THEN main_afterBatch(h) ELSE h

\* lines 510-516: the start of the function, up to its first await
main_start(h) ==
  IF args.isEvent /\ args.eventDelay > 0
    THEN [h EXCEPT !.main.pc = "delay"]
    ELSE fetchIPs(h)

(***************************************************************************)
(* What the providers may answer.                                          *)
(***************************************************************************)
Fail(null) == [ok |-> FALSE, data |-> null]
Ok(data)   == [ok |-> TRUE, data |-> data]

Addresses == {"2.2.2.2", "3.3.3.3"}

ScoreValues == {Num(0), Num(12), Num(250), JNull}

IpqsBodies ==
  {Fail(NullIpqs), Ok(NullIpqs)}
    \cup {Ok([isNull |-> FALSE, success |-> s, fraud_score |-> f]) :
            s \in BOOLEAN, f \in {Undef} \cup ScoreValues}

ProxyBodies ==
  {Fail(NullProxy), Ok(NullProxy), Ok([isNull |-> FALSE, key |-> "", risk |-> Undef])}
    \cup {Ok([isNull |-> FALSE, key |-> k, risk |-> r]) :
            k \in Addresses, r \in {Undef} \cup ScoreValues}

HtmlDocs ==
  { <<"x">>,                          \* a page without the phrase
    <<"7", "F", "x">>,                \* digits only before the phrase
    <<"F", "x", "7">>,                \* 7
    <<"x", "F", "x", "F", "1", "2">>, \* 12, past a second phrase
    <<"F", "x", "1", "0", "0", "x">>, \* 100
    <<"F", "9", "9", "9", "9">> }     \* 999: the group stops at three digits

ScamBodies == {Fail(<<>>), Ok(<<>>)} \cup {Ok(d) : d \in HtmlDocs}

\* what the store may hold under the risk-cache key before a call
InitCaches ==
  { NoCache,
    CacheText("empty", Undef, Undef, Undef),
    CacheText("garbage", Undef, Undef, Undef),
    CacheText("null", Undef, Undef, Undef),
    CacheText("scalar", Undef, Undef, Undef),
    CacheText("object", Undef, Undef, Undef),
    CacheText("object", Str("2.2.2.2"), Undef, Undef),
    StringifyCache("2.2.2.2", Num(12), Str("IPQS")),
    StringifyCache("3.3.3.3", Num(50), Str("Default")) }

\* the providers of a whole run answer from smaller sets
RunIpqsBodies  == {Fail(NullIpqs),
                   Ok([isNull |-> FALSE, success |-> TRUE, fraud_score |-> Num(12)])}
RunProxyBodies == {Fail(NullProxy),
                   Ok([isNull |-> FALSE, key |-> "2.2.2.2", risk |-> Num(66)])}
RunScamBodies  == {Fail(<<>>), Ok(<<"F", "x", "7">>)}

RecentBodies ==
  { NoRecent,
    [pos |-> 3, policyName |-> Str("Proxy-A")],
    [pos |-> 7, policyName |-> Str("Proxy-B")] }

InfoBodies ==
  { Fail(NullInfo),
    Ok([isNull |-> FALSE, isResidential |-> Bool(FALSE), isBroadcast |-> Bool(TRUE)]) }

CardBodies == {Fail(<<>>), Ok(<<"x", "R">>)}

EnterBodies == {Fail(NullEnter), Ok(Zone("1.1.1.1", "China", "Mobile"))}
ExitBodies  == {Fail(NullExit), Ok(GeoIp("2.2.2.2", "US", "Sb Net"))}
Exit6Bodies == {Fail(NullExit), Ok(GeoIp("1.2.3.4", "US", "Sb Net")),
                Ok(GeoIp("2001:db8::1", "US", "Sb Net"))}

\* the answers of the raw geo requests of a run, by request
GeoBodies ==
  { [g \in GeoSlots |->
       CASE g = "inSb" -> Ok(GeoIp("1.1.1.1", "CN", "Sb In"))
         [] g \in {"outIpInfo", "v6IpInfo"} -> Ok(IpInfo("US", "AS15169 ", "Info Net"))
         [] OTHER -> Ok(Zone(Absent, "USA", "Bili Net"))] }

(***************************************************************************)
(* The callbacks.  Each is one turn of the event loop: the response or     *)
(* timer, the continuation of the function that awaited it, and the        *)
(* continuations that one releases in turn.                                *)
(***************************************************************************)
\* a watchdog whose callback does not call done
Watchdog_silent ==
  /\ watchdog = "armed"
  /\ watchdog' = "fired"
  /\ UNCHANGED << args, store, finished, emitted, notes, main, fetch, pol, risk,
                  typ, geo, issued, io, prev, hist, wire >>

\* lines 117-119
Watchdog ==
  /\ watchdog = "armed"
  /\ watchdog' = "fired"
  /\ Becomes(done(Heap, TimeoutResult))
  /\ UNCHANGED << args, prev, hist, wire >>

\* line 512: wait(args.eventDelay * 1000) elapses
EventDelayElapsed ==
  /\ main.pc = "delay"
  /\ Becomes(fetchIPs(Heap))
  /\ UNCHANGED << args, watchdog, prev, hist, wire >>

\* line 382
EnterResponse ==
  /\ main.pc = "fetch" /\ ~fetch.enter.got
  /\ \E b \in EnterBodies :
       Becomes(fetchSettle([Heap EXCEPT !.fetch.enter =
                              [got |-> TRUE, v |-> httpJSON(b, NullEnter)]]))
  /\ UNCHANGED << args, watchdog, prev, hist, wire >>

\* line 383
ExitResponse ==
  /\ main.pc = "fetch" /\ ~fetch.exit.got
  /\ \E b \in ExitBodies :
       Becomes(fetchSettle([Heap EXCEPT !.fetch.exit =
                              [got |-> TRUE, v |-> httpJSON(b, NullExit)]]))
  /\ UNCHANGED << args, watchdog, prev, hist, wire >>

\* a race that the later of its two promises settles again
raceSettle_lastWins(h, v, who) ==
  [h EXCEPT !.fetch.exit6 = [got |-> TRUE, v |-> v], !.fetch.won = who]

\* lines 384-387: the first of the response and the timer settles the race
raceSettle(h, v, who) ==
  IF h.fetch.exit6.got THEN h
  ELSE [h EXCEPT !.fetch.exit6 = [got |-> TRUE, v |-> v], !.fetch.won = who]

\* line 385; the response may come after the race is over
Exit6Response ==
  /\ main.pc # "start" /\ main.pc # "delay" /\ main.pc # "harness"
  /\ ~fetch.v6resp
  /\ \E b \in Exit6Bodies :
       Becomes(fetchSettle(raceSettle([Heap EXCEPT !.fetch.v6resp = TRUE],
                                      httpJSON(b, NullExit), "response")))
  /\ UNCHANGED << args, watchdog, prev, hist, wire >>

\* line 386: wait(CONFIG.ipv6Timeout).then(() => null)
V6Timeout ==
  /\ main.pc # "start" /\ main.pc # "delay" /\ main.pc # "harness"
  /\ ~fetch.v6timer
  /\ Becomes(fetchSettle(raceSettle([Heap EXCEPT !.fetch.v6timer = TRUE], NullExit,
                                     "timer")))
  /\ UNCHANGED << args, watchdog, prev, hist, wire >>

\* line 264: the answer of the first search
RecentFirst(Bodies) ==
  /\ pol.pc = "first"
  /\ \E res \in Bodies : Becomes(batchSettle(getPolicy_first(Heap, res)))
  /\ UNCHANGED << args, watchdog, prev, hist, wire >>

\* line 273: wait(CONFIG.policyRetryDelay) elapses
PolicyRetryElapsed ==
  /\ pol.pc = "wait"
  /\ Becomes(getPolicy_retry(Heap))
  /\ UNCHANGED << args, watchdog, prev, hist, wire >>

\* line 275: the answer of the second search
RecentSecond(Bodies) ==
  /\ pol.pc = "second"
  /\ \E res \in Bodies : Becomes(batchSettle(getPolicy_second(Heap, res)))
  /\ UNCHANGED << args, watchdog, prev, hist, wire >>

\* line 319
IpqsResponse(Bodies) ==
  /\ risk.pc = "ipqs"
  /\ \E b \in Bodies :
       Becomes(batchSettle(getRiskScore_ipqs(Heap, httpJSON(b, NullIpqs))))
  /\ UNCHANGED << args, watchdog, prev, hist, wire >>

\* line 328
ProxyCheckResponse(Bodies) ==
  /\ risk.pc = "all" /\ ~risk.proxyData.got
  /\ \E b \in Bodies :
       Becomes(batchSettle(getRiskScore_proxy(Heap, httpJSON(b, NullProxy))))
  /\ UNCHANGED << args, watchdog, prev, hist, wire >>

\* line 329
ScamalyticsResponse(Bodies) ==
  /\ risk.pc = "all" /\ ~risk.scamHtml.got
  /\ \E b \in Bodies : Becomes(batchSettle(getRiskScore_scam(Heap, httpRaw(b))))
  /\ UNCHANGED << args, watchdog, prev, hist, wire >>

\* line 353
InfoResponse(Bodies) ==
  /\ typ.pc = "info"
  /\ \E b \in Bodies :
       Becomes(batchSettle(getIPType_info(Heap, httpJSON(b, NullInfo))))
  /\ UNCHANGED << args, watchdog, prev, hist, wire >>

\* line 364
CardResponse(Bodies) ==
  /\ typ.pc = "card"
  /\ \E b \in Bodies : Becomes(batchSettle(getIPType_card(Heap, httpRaw(b))))
  /\ UNCHANGED << args, watchdog, prev, hist, wire >>

\* lines 537-544: one of the raw geo requests is answered
GeoResponse ==
  /\ \E g \in GeoSlots :
       /\ geo[g].st = "pending"
       /\ Becomes(batchSettle(geoResolve(Heap, g, httpJSON(wire[g], NullGeo))))
  /\ UNCHANGED << args, watchdog, prev, hist, wire >>

(***************************************************************************)
(* A run of the script.                                                    *)
(***************************************************************************)
\* prev: the last call that returned before the current one (its address and
\* result), and the address of the call that returned before that one
NoPrev == [some |-> FALSE, ip |-> "", result |-> NoResult, older |-> ""]

\* hist: the last checkIPChange call that was made (call) and the one before
\* it (prior), each with the trigger of its run, the addresses it was given
\* and what it returned; and the name the last successful policy discovery
\* found (null when there was none)
NoCall == [some |-> FALSE, isEvent |-> FALSE, inIP |-> JNull, outIP |-> JNull,
           outIPv6 |-> JNull, ret |-> ""]

NoHist == [call |-> NoCall, prior |-> NoCall, found |-> JNull]

Holds(h) ==
  /\ store = h.store
  /\ finished = h.finished
  /\ emitted = h.emitted
  /\ notes = h.notes
  /\ main = h.main
  /\ fetch = h.fetch
  /\ pol = h.pol
  /\ risk = h.risk
  /\ typ = h.typ
  /\ geo = h.geo
  /\ issued = h.issued
  /\ io = h.io

FreshHeap(st) ==
  [store |-> st, finished |-> FALSE, emitted |-> << >>, notes |-> 0,
   main |-> IdleMain, fetch |-> IdleFetch, pol |-> IdlePolicy, risk |-> IdleRisk,
   typ |-> IdleType, geo |-> IdleGeo, issued |-> {}, io |-> NoIO]

\* the merged argument objects and triggers of a run
RunArguments ==
  [TYPE : {Absent, "EVENT"}, ipqs_key : {Absent, "null", "KEY"},
   lang : {Absent, "null"}, event_delay : {NaN, Flt(0)}]

\* what the store may hold when a run starts
RunStores ==
  [lastEvent  : { NoSnapshot,
                  SnapText("garbage", Undef, Undef, Undef),
                  SnapText("null", Undef, Undef, Undef),
                  StringifySnapshot(Str("1.1.1.1"), Str("2.2.2.2"), JNull) },
   lastPolicy : {Str("Proxy-Old")},
   riskCache  : { NoCache, StringifyCache("2.2.2.2", Num(12), Str("IPQS")) }]

\* the state when the top level of the script has run: the arguments are
\* parsed, the watchdog is armed, the orchestrator is at its first await
Init ==
  /\ \E arg \in RunArguments, isPanel \in BOOLEAN, isRequest \in BOOLEAN :
       args = parseArguments(arg, isPanel, isRequest)
  /\ watchdog = "armed"
  /\ prev = NoPrev
  /\ hist = NoHist
  /\ wire \in GeoBodies
  /\ \E st \in RunStores : Holds(main_start(FreshHeap(st)))

Next ==
  \/ Watchdog
  \/ EventDelayElapsed
  \/ EnterResponse
  \/ ExitResponse
  \/ Exit6Response
  \/ V6Timeout
  \/ RecentFirst(RecentBodies)
  \/ PolicyRetryElapsed
  \/ RecentSecond(RecentBodies)
  \/ IpqsResponse(RunIpqsBodies)
  \/ ProxyCheckResponse(RunProxyBodies)
  \/ ScamalyticsResponse(RunScamBodies)
  \/ InfoResponse(InfoBodies)
  \/ CardResponse(CardBodies)
  \/ GeoResponse

Spec == Init /\ [][Next]_vars

\* the timer of the watchdog fires
FairSpec == Spec /\ WF_vars(Watchdog)

(***************************************************************************)
(* getRiskScore on its own: a sequence of calls over the persisted cache,  *)
(* with every answer the providers may give.  A call may also be abandoned *)
(* before it returns (its run ended), and the next one started.            *)
(***************************************************************************)
HarnessArguments ==
  [TYPE : {Absent}, ipqs_key : {Absent, "", "null", "KEY"},
   lang : {Absent}, event_delay : {NaN}]

HarnessHeap(st) == [FreshHeap(st) EXCEPT !.main.pc = "harness"]

InitRisk ==
  /\ \E arg \in HarnessArguments : args = parseArguments(arg, TRUE, FALSE)
  /\ watchdog = "none"
  /\ prev = NoPrev
  /\ hist = NoHist
  /\ wire \in GeoBodies
  /\ \E c \in InitCaches :
       Holds(HarnessHeap([lastEvent |-> NoSnapshot, lastPolicy |-> JNull,
                          riskCache |-> c]))

RiskCall ==
  /\ main.pc = "harness"
  /\ prev' = IF risk.pc = "done"
               THEN [some |-> TRUE, ip |-> risk.ip, result |-> risk.result,
                     older |-> prev.ip]
               ELSE prev
  /\ \E ip \in Addresses : Becomes(getRiskScore(HarnessHeap(store), ip))
  /\ UNCHANGED << args, watchdog, hist, wire >>

NextRisk ==
  \/ RiskCall
  \/ IpqsResponse(IpqsBodies)
  \/ ProxyCheckResponse(ProxyBodies)
  \/ ScamalyticsResponse(ScamBodies)

SpecRisk == InitRisk /\ [][NextRisk]_vars

(***************************************************************************)
(* checkIPChange on its own: a sequence of calls over the persisted        *)
(* snapshot, each with the addresses fetchIPs makes of what the three      *)
(* address providers answered, made as the orchestrator makes it: only     *)
(* when the inbound and the outbound address are there (line 518).         *)
(***************************************************************************)
ChangeEnters ==
  {NullEnter} \cup {Zone(a, "China", "Mobile") : a \in {"1.1.1.1", "1.1.1.2"}}

ChangeExits ==
  {NullExit} \cup {GeoIp(a, "US", "Sb Net") : a \in {"2.2.2.2", "3.3.3.3"}}

ChangeExit6s ==
  {NullExit} \cup {GeoIp(a, "US", "Sb Net") :
                     a \in {"1.2.3.4", "2001:db8::1", "2001:db8::2"}}

\* what the store may hold under the last-snapshot key before the first call
InitSnapshots ==
  { NoSnapshot,
    SnapText("empty", Undef, Undef, Undef),
    SnapText("garbage", Undef, Undef, Undef),
    SnapText("null", Undef, Undef, Undef),
    SnapText("scalar", Undef, Undef, Undef),
    SnapText("object", Undef, Undef, Undef),
    SnapText("object", Str("1.1.1.1"), Str("2.2.2.2"), Undef),
    SnapText("object", Str("1.1.1.1"), Str("2.2.2.2"), Str("")),
    StringifySnapshot(Str("1.1.1.1"), Str("2.2.2.2"), JNull),
    StringifySnapshot(Str("1.1.1.1"), Str("2.2.2.2"), Str("2001:db8::1")) }

InitChange ==
  /\ \E type \in {Absent, "EVENT"} :
       args = parseArguments([TYPE |-> type, ipqs_key |-> Absent, lang |-> Absent,
                              event_delay |-> NaN], TRUE, FALSE)
  /\ watchdog = "none"
  /\ prev = NoPrev
  /\ hist = NoHist
  /\ wire \in GeoBodies
  /\ \E snap \in InitSnapshots :
       Holds(HarnessHeap([lastEvent |-> snap, lastPolicy |-> JNull,
                          riskCache |-> NoCache]))

ChangeCall ==
  /\ main.pc = "harness"
  /\ \E enter \in ChangeEnters, exit \in ChangeExits, exit6 \in ChangeExit6s :
       LET r == fetchIPs_result([IdleFetch EXCEPT !.enter.v = enter, !.exit.v = exit,
                                                  !.exit6.v = exit6])
           c == checkIPChange(HarnessHeap(store), r.inIP, r.outIP, r.outIPv6)
       IN  /\ Truthy(r.inIP) /\ Truthy(r.outIP)
           /\ Becomes(c.h)
           /\ hist' = [hist EXCEPT
                         !.prior = hist.call,
                         !.call = [some |-> TRUE, isEvent |-> args.isEvent,
                                   inIP |-> r.inIP, outIP |-> r.outIP,
                                   outIPv6 |-> r.outIPv6, ret |-> c.ret]]
  /\ UNCHANGED << args, watchdog, prev, wire >>

NextChange == ChangeCall

SpecChange == InitChange /\ [][NextChange]_vars

(***************************************************************************)
(* Runs of the script, one after the other, over the persistent store.     *)
(* The host starts the next run when the current one has handed its result *)
(* to $done; the triggers and arguments stay those of the first run, and   *)
(* the risk providers answer from small sets.                              *)
(***************************************************************************)
\* the call of checkIPChange the orchestrator of this run made (line 525):
\* it is made once both addresses are there, and the orchestrator goes on
\* to the batch exactly when it returned true
callOf(h) ==
  IF h.main.pc \in {"batch", "returned", "threw"}
       /\ Truthy(h.main.inIP) /\ Truthy(h.main.outIP)
    THEN [some |-> TRUE, isEvent |-> args.isEvent,
          inIP |-> h.main.inIP, outIP |-> h.main.outIP, outIPv6 |-> h.main.outIPv6,
          ret |-> IF h.main.pc = "threw" THEN "threw"
                  ELSE IF h.main.pc = "returned" /\ h.pol.pc = "idle" THEN "false"
                  ELSE "true"]
    ELSE NoCall

RunsArguments ==
  [TYPE : {Absent, "EVENT"}, ipqs_key : {Absent}, lang : {Absent},
   event_delay : {NaN}]

RunsStores ==
  [lastEvent  : {NoSnapshot, SnapText("garbage", Undef, Undef, Undef)},
   lastPolicy : {JNull},
   riskCache  : {NoCache}]

RunsProxyBodies == {Fail(NullProxy)}
RunsScamBodies  == {Fail(<<>>), Ok(<<"F", "x", "7">>)}

InitRuns ==
  /\ \E arg \in RunsArguments, isPanel \in BOOLEAN :
       args = parseArguments(arg, isPanel, FALSE)
  /\ watchdog = "armed"
  /\ prev = NoPrev
  /\ hist = NoHist
  /\ wire \in GeoBodies
  /\ \E st \in RunsStores : Holds(main_start(FreshHeap(st)))

NewRun ==
  /\ finished /\ main.pc # "harness"
  /\ watchdog' = "armed"
  /\ hist' = [hist EXCEPT !.prior = callOf(Heap)]
  /\ Becomes(main_start(FreshHeap(store)))
  /\ UNCHANGED << args, prev, wire >>

NextRuns ==
  \/ NewRun
  \/ Watchdog
  \/ EventDelayElapsed
  \/ EnterResponse
  \/ ExitResponse
  \/ Exit6Response
  \/ V6Timeout
  \/ RecentFirst(RecentBodies)
  \/ PolicyRetryElapsed
  \/ RecentSecond(RecentBodies)
  \/ ProxyCheckResponse(RunsProxyBodies)
  \/ ScamalyticsResponse(RunsScamBodies)
  \/ InfoResponse(InfoBodies)
  \/ CardResponse(CardBodies)
  \/ GeoResponse

SpecRuns == InitRuns /\ [][NextRuns]_vars

(***************************************************************************)
(* The resolver of the earlier revision (src/unnamed/part_000), which asks *)
(* the three tiers one after the other, and one call of the current        *)
(* resolver over an empty risk cache, with every answer the providers may  *)
(* give.                                                                   *)
(***************************************************************************)
\* part_000 lines 176-209, as a function of the credential, the address and
\* what the three requests are answered; a tier is asked only while score
\* is null, so that the answer of a tier that is not asked is not read
getRiskScore_earlier(key, ip, ipqs, proxycheck, html) ==
  LET hit1    == key # "" /\ ~ipqs.isNull /\ ipqs.success /\ ipqs.fraud_score # Undef
      score1  == IF hit1 THEN ipqs.fraud_score ELSE JNull
      source1 == IF hit1 THEN "IPQS" ELSE ""
      risk2   == IF proxycheck.isNull \/ proxycheck.key # ip THEN Undef
                 ELSE proxycheck.risk
      hit2    == score1 = JNull /\ risk2 # Undef
      score2  == IF hit2 THEN risk2 ELSE score1
      source2 == IF hit2 THEN "ProxyCheck" ELSE source1
      parsed  == parseScamalyticsScore(html)
      score3  == IF score2 = JNull THEN parsed ELSE score2
      source3 == IF score2 = JNull /\ parsed # JNull THEN "Scamalytics" ELSE source2
  IN  [score  |-> IF score3 # JNull THEN score3 ELSE Num(50),
       source |-> Str(IF source3 # "" THEN source3 ELSE "Default")]

InitResolve ==
  /\ \E arg \in HarnessArguments : args = parseArguments(arg, TRUE, FALSE)
  /\ watchdog = "none"
  /\ prev = NoPrev
  /\ hist = NoHist
  /\ wire \in GeoBodies
  /\ Holds(HarnessHeap([lastEvent |-> NoSnapshot, lastPolicy |-> JNull,
                        riskCache |-> NoCache]))

\* the one call of getRiskScore
ResolveCall ==
  /\ main.pc = "harness" /\ risk.pc = "idle"
  /\ \E ip \in Addresses : Becomes(getRiskScore(Heap, ip))
  /\ UNCHANGED << args, watchdog, prev, hist, wire >>

NextResolve ==
  \/ ResolveCall
  \/ IpqsResponse(IpqsBodies)
  \/ ProxyCheckResponse(ProxyBodies)
  \/ ScamalyticsResponse(ScamBodies)

SpecResolve == InitResolve /\ [][NextResolve]_vars

(***************************************************************************)
(* getPolicy on its own: a sequence of calls, one to a run, over the       *)
(* persisted policy name.  The key is written by getPolicy only, so that a *)
(* name found in it at the start is the one an earlier discovery found.    *)
(***************************************************************************)
PolicyBodies ==
  { NoRecent,
    [pos |-> 2, policyName |-> Str("")],
    [pos |-> 2, policyName |-> Undef],
    [pos |-> 5, policyName |-> Str("Proxy-5")],
    [pos |-> 6, policyName |-> Str("Proxy-6")],
    [pos |-> 10, policyName |-> Str("Proxy-10")],
    [pos |-> 11, policyName |-> Str("Proxy-11")] }

InitPolicy ==
  /\ args = parseArguments([TYPE |-> Absent, ipqs_key |-> Absent, lang |-> Absent,
                            event_delay |-> NaN], TRUE, FALSE)
  /\ watchdog = "none"
  /\ prev = NoPrev
  /\ \E name \in {JNull, Str("Proxy-Old")} :
       /\ hist = [NoHist EXCEPT !.found = name]
       /\ wire \in GeoBodies
       /\ Holds(HarnessHeap([lastEvent |-> NoSnapshot, lastPolicy |-> name,
                             riskCache |-> NoCache]))

\* the searches of this call found a name
discovered(p) ==
  /\ p.pc = "done"
  /\ \/ Truthy(findPolicyInRecent(p.res1, FirstSearchLimit))
     \/ Truthy(findPolicyInRecent(p.res2, SecondSearchLimit))

PolicyCall ==
  /\ main.pc = "harness"
  /\ hist' = [hist EXCEPT !.found = IF discovered(pol) THEN pol.result ELSE @]
  /\ Becomes(getPolicy(HarnessHeap(store)))
  /\ UNCHANGED << args, watchdog, prev, wire >>

NextPolicy ==
  \/ PolicyCall
  \/ RecentFirst(PolicyBodies)
  \/ PolicyRetryElapsed
  \/ RecentSecond(PolicyBodies)

SpecPolicy == InitPolicy /\ [][NextPolicy]_vars

(***************************************************************************)
(* getIPType on its own: a sequence of calls, with every answer the two    *)
(* endpoints may give.                                                     *)
(***************************************************************************)
TypeInfoBodies ==
  {Fail(NullInfo), Ok(NullInfo)}
    \cup {Ok([isNull |-> FALSE, isResidential |-> r, isBroadcast |-> b]) :
            r \in {Undef, JNull, Bool(TRUE), Bool(FALSE)},
            b \in {Undef, Bool(TRUE), Bool(FALSE)}}

CardTokens == {"x", "R", "B"}

\* the documents of at most three tokens
CardDocs ==
  {<< >>} \cup {<<a>> : a \in CardTokens}
    \cup {<<a, b>> : a \in CardTokens, b \in CardTokens}
    \cup {<<a, b, c>> : a \in CardTokens, b \in CardTokens, c \in CardTokens}

TypeCardBodies == {Fail(<<>>)} \cup {Ok(d) : d \in CardDocs}

InitType ==
  /\ args = parseArguments([TYPE |-> Absent, ipqs_key |-> Absent, lang |-> Absent,
                            event_delay |-> NaN], TRUE, FALSE)
  /\ watchdog = "none"
  /\ prev = NoPrev
  /\ hist = NoHist
  /\ wire \in GeoBodies
  /\ Holds(HarnessHeap([lastEvent |-> NoSnapshot, lastPolicy |-> JNull,
                        riskCache |-> NoCache]))

TypeCall ==
  /\ main.pc = "harness"
  /\ Becomes(getIPType(HarnessHeap(store)))
  /\ UNCHANGED << args, watchdog, prev, hist, wire >>

NextType ==
  \/ TypeCall
  \/ InfoResponse(TypeInfoBodies)
  \/ CardResponse(TypeCardBodies)

SpecType == InitType /\ [][NextType]_vars

(***************************************************************************)
(* The parallel batch on its own: a panel run at the await of line 547,    *)
(* in either language and with or without a v6 address, whose policy, risk *)
(* and IP-type queries have resolved and whose raw geo requests are        *)
(* answered in every order, with every payload the providers may give.     *)
(***************************************************************************)
\* the answers of fetchIPs: the inbound one has an address, and no country
\* (normalizeBilibili gives null), the home country or another one; the
\* outbound ones are with and without country code and organization
BatchEnters ==
  {Zone("1.1.1.1", Absent, Absent), Zone("1.1.1.1", "China", "Telecom"),
   Zone("1.1.1.1", "USA", "Bili In")}

BatchExits == {GeoIp("2.2.2.2", "US", "Sb Net"), GeoIp("2.2.2.2", Absent, Absent)}

BatchExit6s ==
  {NullExit, GeoIp("2001:db8::1", "US", "Sb Net"), GeoIp("2001:db8::1", "DE", "Sb Six")}

\* the answers of the raw geo requests, by request: each fails, or is a
\* document with or without the fields the normalizer asks for
BatchWires ==
  [inSb      : {Fail(NullGeo), Ok(GeoIp("1.1.1.1", "CN", "Sb In")),
                Ok(GeoIp("1.1.1.1", Absent, Absent))},
   outIpInfo : {Fail(NullGeo), Ok(IpInfo("US", "AS15169 ", "Info Net")),
                Ok(IpInfo("JP", "AS2516", Absent))},
   outBili   : {Fail(NullGeo), Ok(Zone(Absent, "USA", "Bili Net")),
                Ok(Zone(Absent, "China", "Mobile"))},
   v6IpInfo  : {Fail(NullGeo), Ok(IpInfo("US", "AS15169 ", "Info Net")),
                Ok(IpInfo("JP", "AS2516", Absent))},
   v6Bili    : {Fail(NullGeo), Ok(Zone(Absent, "USA", "Bili Net")),
                Ok(Zone(Absent, "China", "Mobile"))}]

\* the risk scores the resolver may have returned
BatchScores == 0..100

\* the orchestrator after lines 516-547 on the answers of fetchIPs, with the
\* three resolvers already returned
BatchHeap(enter, exit, exit6, score) ==
  LET st == [lastEvent |-> NoSnapshot, lastPolicy |-> JNull, riskCache |-> NoCache]
      h  == main_afterFetch(
              [FreshHeap(st) EXCEPT
                 !.main.pc = "fetch",
                 !.fetch = [IdleFetch EXCEPT !.enter = [got |-> TRUE, v |-> enter],
                                             !.exit  = [got |-> TRUE, v |-> exit],
                                             !.exit6 = [got |-> TRUE, v |-> exit6]]])
  IN  [h EXCEPT !.pol.pc = "done", !.pol.result = Str("Proxy"),
                !.risk.pc = "done",
                !.risk.result = [score |-> Num(score), source |-> Str("IPQS")],
                !.typ.pc = "done",
                !.typ.result = [ipType |-> "residential", ipSrc |-> "native"]]

\* every score with one set of payloads, and every set of payloads with the
\* score 12
InitBatch ==
  /\ \E lang \in {Absent, "zh"} :
       args = parseArguments([TYPE |-> Absent, ipqs_key |-> Absent, lang |-> lang,
                              event_delay |-> NaN], TRUE, FALSE)
  /\ watchdog = "none"
  /\ prev = NoPrev
  /\ hist = NoHist
  /\ wire \in BatchWires
  /\ \E enter \in BatchEnters, exit \in BatchExits, exit6 \in BatchExit6s,
        score \in BatchScores :
       /\ \/ score = 12
          \/ /\ wire \in GeoBodies
             /\ enter = Zone("1.1.1.1", "China", "Telecom")
             /\ exit = GeoIp("2.2.2.2", "US", "Sb Net")
             /\ exit6 = NullExit
       /\ Holds(BatchHeap(enter, exit, exit6, score))

NextBatch == GeoResponse

SpecBatch == InitBatch /\ [][NextBatch]_vars

(***************************************************************************)
(* The one-shot guard and the watchdog.                                    *)
(***************************************************************************)
TerminalKinds == {"panel", "empty", "acquisition-failed", "timeout"}

\* C1: $done is invoked at most once per run, in every interleaving of the
\* watchdog and the orchestrator: at most one payload is ever emitted, the
\* guard is set exactly when one was, and once the guard is set no later
\* call of done() emits anything.
C1_DoneAtMostOnce ==
  /\ [](Len(emitted) <= 1 /\ (finished <=> Len(emitted) = 1))
  /\ [][finished => (finished' /\ emitted' = emitted)]_vars

\* both the watchdog and the orchestrator have called done()
C1_BothCalledDone ==
  watchdog = "fired" /\ main.pc = "returned" /\ Len(emitted) = 1

\* C2: when the watchdog fires before the orchestrator has reached its own
\* done() call, the result emitted is the timeout result, and it stays the
\* only one whatever the orchestrator completes with afterwards.
C2_TimeoutFirstWins ==
  /\ [][(watchdog = "armed" /\ watchdog' = "fired" /\ main.pc # "returned")
          => emitted' = << TimeoutResult >>]_vars
  /\ [][emitted = << TimeoutResult >> => emitted' = emitted]_vars

\* the watchdog fired first, and the orchestrator then went through the
\* whole batch to its own done() with a panel payload
C2_OrchestratorCompletedAfterTimeout ==
  /\ emitted = << TimeoutResult >>
  /\ main.pc = "returned"
  /\ ~args.isEvent
  /\ pol.pc = "done" /\ risk.pc = "done" /\ typ.pc = "done"

\* C3: under fairness of the watchdog timer every run eventually emits a
\* terminal result, whichever requests fail, answer with malformed payloads
\* or are never answered, and it is the normal payload, the empty result,
\* the acquisition-failed result or the timeout result.
C3_EventuallyTerminal ==
  <>(finished /\ Len(emitted) = 1 /\ emitted[1].kind \in TerminalKinds)

\* a result was emitted although a provider of the batch never answered
C3_TerminalWhileProviderSilent ==
  /\ finished /\ emitted = << TimeoutResult >>
  /\ main.pc = "batch"
  /\ risk.pc = "all" /\ ~risk.proxyData.got /\ ~risk.scamHtml.got

(***************************************************************************)
(* The risk resolver.                                                      *)
(***************************************************************************)
DefaultResult == [score |-> Num(DefaultScore), source |-> Str("Default")]

\* what Tier 2 and Tier 3 gave the current call
tier2Risk  == proxyRisk(risk.proxyData.v, risk.ip)
tier3Score == parseScamalyticsScore(risk.scamHtml.v)

\* the cache missed and no tier gave a score: Tier 1 was skipped or did not
\* succeed, Tier 2 had no risk field, Tier 3 no parsable score
Exhausted ==
  /\ ~risk.hit
  /\ ~risk.data.got \/ ~ipqsSucceeded(risk.data.v)
  /\ risk.proxyData.got /\ tier2Risk = Undef
  /\ risk.scamHtml.got /\ tier3Score = JNull

\* C4: getRiskScore never fails.  It never rejects; it is never left
\* waiting once the answers it awaits are there, so that every combination
\* of provider outcomes makes it return; and when the cache missed and
\* every tier is exhausted it returns exactly {score: 50, source: Default}.
C4_NeverFailsDefault ==
  /\ risk.pc \in {"idle", "ipqs", "all", "done"}
  /\ risk.pc = "ipqs" => ~risk.data.got
  /\ risk.pc = "all" => ~(risk.proxyData.got /\ risk.scamHtml.got)
  /\ (risk.pc = "done" /\ Exhausted) => risk.result = DefaultResult

\* Tier 1 was asked and did not succeed, Tier 2 and Tier 3 gave no score
C4_AllTiersExhausted ==
  /\ risk.pc = "done" /\ Exhausted
  /\ risk.data.got
  /\ risk.result = DefaultResult

\* C5: whatever the tiers answer and whatever the cache holds, the value
\* getRiskScore returns has a score in [0,100] and a source tag of the
\* defined set, and no error is propagated.
C5_ScoreInRangeSourceDefined ==
  /\ risk.pc # "threw"
  /\ risk.pc = "done" =>
       /\ risk.result.score.t = "number"
       /\ risk.result.score.n \in 0..100
       /\ risk.result.source \in {Str(x) : x \in RiskSources \cup {"Cache"}}

\* C6: a second getRiskScore(A), with no other address resolved since the
\* first one returned, returns the identical {score, source} from the cache
\* and sends no request to any tier.
C6_RepeatIsCacheHit ==
  (prev.some /\ risk.pc # "idle" /\ risk.ip = prev.ip) =>
    /\ risk.pc = "done" /\ risk.hit
    /\ risk.result = prev.result
    /\ issued = {}

\* the first call ended with the Default 50 outcome and the second, for the
\* same address, has returned
C6_RepeatAfterDefault ==
  /\ prev.some /\ risk.ip = prev.ip /\ risk.pc = "done"
  /\ prev.result = DefaultResult

\* C7: the cache holds one entry, that of the last address resolved: when
\* a call has returned, the persisted entry is its address and result, and
\* a call for another address than the last one resolved is a cache miss
\* that queries the providers.
C7_SingleEntryCache ==
  /\ risk.pc = "done" =>
       store.riskCache =
         CacheText("object", Str(risk.ip), risk.result.score, risk.result.source)
  /\ (prev.some /\ risk.pc # "idle" /\ risk.ip # prev.ip) =>
       /\ ~risk.hit
       /\ IF args.ipqsKey # "" THEN "ipqs" \in issued
                               ELSE {"proxycheck", "scamalytics"} \subseteq issued

\* getRiskScore(A), getRiskScore(B), getRiskScore(A): the third call missed
\* the cache and went through the providers again
C7_FirstAddressEvicted ==
  /\ prev.some /\ prev.older = risk.ip /\ prev.ip # risk.ip
  /\ risk.pc = "done" /\ ~risk.hit
  /\ risk.proxyData.got /\ risk.scamHtml.got

\* C8: when both results of the parallel pair are there, a risk field of
\* Tier 2 for the queried address decides the result, with source
\* ProxyCheck, whichever of the two arrived first; Tier 3's score is the
\* result only when Tier 2 has no such field.
C8_Tier2WinsOverTier3 ==
  (risk.pc = "done" /\ risk.proxyData.got /\ risk.scamHtml.got) =>
    /\ tier2Risk # Undef =>
         risk.result = [score |-> tier2Risk, source |-> Str("ProxyCheck")]
    /\ risk.result.source = Str("Scamalytics") =>
         tier2Risk = Undef /\ risk.result.score = tier3Score

\* both tiers gave a score, Tier 3 answered first, and Tier 2's score is
\* the result
C8_Tier3FirstTier2Wins ==
  /\ risk.pc = "done" /\ risk.first = "scam"
  /\ tier2Risk # Undef /\ tier3Score # JNull /\ tier2Risk # tier3Score
  /\ risk.result = [score |-> tier2Risk, source |-> Str("ProxyCheck")]

\* C9: without a credential no Tier 1 request is sent; on a cache miss the
\* Tier 2 and the Tier 3 request are both sent; and when neither gives a
\* score the result is exactly score 50 with source "Default".
C9_NoCredentialSkipsTier1 ==
  args.ipqsKey = "" =>
    /\ "ipqs" \notin issued /\ ~risk.data.got
    /\ (risk.pc # "idle" /\ ~risk.hit) =>
         {"proxycheck", "scamalytics"} \subseteq issued
    /\ (risk.pc = "done" /\ ~risk.hit /\ tier2Risk = Undef /\ tier3Score = JNull) =>
         risk.result = DefaultResult

\* no credential, both requests failed, the result is the default
C9_NoCredentialBothFail ==
  /\ args.ipqsKey = ""
  /\ risk.pc = "done" /\ ~risk.hit
  /\ risk.proxyData.v.isNull /\ risk.scamHtml.v.isNull
  /\ risk.result = DefaultResult

\* C10: malformed text under the risk-cache key or the last-snapshot key is
\* a cache miss, respectively no prior state: neither function propagates
\* an error, checkIPChange reports the change (and so has written the
\* snapshot once the addresses are acquired), and getRiskScore goes on to
\* the provider tiers.
C10_MalformedIsNoPriorState ==
  /\ main.pc # "threw" /\ risk.pc # "threw"
  /\ (/\ args.isEvent
      /\ main.pc \notin {"start", "delay", "fetch"}
      /\ Truthy(main.inIP) /\ Truthy(main.outIP)) =>
       store.lastEvent.k = "object"
  /\ (risk.pc # "idle" /\ store.riskCache.k \notin {"absent", "object"}) =>
       ~risk.hit /\ risk.pc \in {"ipqs", "all"}

(***************************************************************************)
(* The change detector.                                                    *)
(***************************************************************************)
\* the persisted snapshot is a record holding exactly these addresses
SnapshotIs(snap, inIP, outIP, outIPv6) ==
  /\ snap.k = "object"
  /\ snap.inIP = inIP /\ snap.outIP = outIP /\ snap.outIP6 = outIPv6

\* C11: in event mode a call of checkIPChange writes the snapshot only when
\* it returns true; with no prior snapshot it returns true; when the three
\* current addresses equal the persisted ones it returns false and the store
\* is left as it was; and after a call that returned true the persisted
\* snapshot is the current address tuple.
C11_WritesOnlyOnChange ==
  [][LET c == hist'.call
     IN  (c.isEvent /\ main.pc = "harness") =>
           /\ store' # store => c.ret = "true"
           /\ ~TextTruthy(store.lastEvent) => c.ret = "true"
           /\ SnapshotIs(store.lastEvent, c.inIP, c.outIP, c.outIPv6) =>
                c.ret = "false" /\ store' = store
           /\ c.ret = "false" =>
                store' = store
                /\ SnapshotIs(store.lastEvent, c.inIP, c.outIP, c.outIPv6)
           /\ c.ret = "true" =>
                store'.lastEvent = SnapText("object", c.inIP, c.outIP, c.outIPv6)
    ]_vars

\* two event-mode calls with different outbound addresses: each reported the
\* change, and the tuple of the second is what is persisted
C11_ChangeWritten ==
  /\ hist.prior.some /\ hist.prior.isEvent /\ hist.prior.ret = "true"
  /\ hist.call.ret = "true" /\ hist.call.outIP # hist.prior.outIP
  /\ SnapshotIs(store.lastEvent, hist.call.inIP, hist.call.outIP, hist.call.outIPv6)

\* the two last calls were given the same addresses
SameAddresses ==
  /\ hist.call.some /\ hist.prior.some
  /\ hist.call.inIP = hist.prior.inIP
  /\ hist.call.outIP = hist.prior.outIP
  /\ hist.call.outIPv6 = hist.prior.outIPv6

\* C12: in event mode the second of two successive calls with identical
\* addresses, v6 present or absent, returns false (the first one having
\* returned); an absent v6 address equals a persisted absent one, and does
\* not equal a persisted empty string.
C12_Reflexive ==
  /\ []((hist.call.isEvent /\ SameAddresses /\ hist.prior.ret # "threw") =>
          hist.call.ret = "false")
  /\ [][LET c == hist'.call
        IN  (c.isEvent /\ main.pc = "harness" /\ c.outIPv6 = JNull
             /\ store.lastEvent.k = "object"
             /\ store.lastEvent.inIP = c.inIP /\ store.lastEvent.outIP = c.outIP) =>
              /\ store.lastEvent.outIP6 = JNull => c.ret = "false"
              /\ store.lastEvent.outIP6 = Str("") => c.ret = "true"
       ]_vars

\* the first call wrote a snapshot without v6 address, the second one, again
\* without v6 address, returned false
C12_AbsentV6Twice ==
  /\ hist.call.isEvent /\ SameAddresses
  /\ hist.prior.ret = "true" /\ hist.call.ret = "false"
  /\ hist.call.outIPv6 = JNull

\* the run before this one and this one are event runs whose change
\* detector was given the same addresses, and the earlier call returned
SameAddressesAgain ==
  /\ args.isEvent /\ hist.prior.some /\ hist.prior.isEvent
  /\ hist.prior.ret # "threw"
  /\ callOf(Heap).some
  /\ callOf(Heap).inIP = hist.prior.inIP
  /\ callOf(Heap).outIP = hist.prior.outIP
  /\ callOf(Heap).outIPv6 = hist.prior.outIPv6

\* C13: a notification is posted only in an event run and only when the
\* change detector of that run returned true; in panel mode none is ever
\* posted; and the second of two consecutive event runs that acquire the
\* same addresses posts none, starts no query of the batch and completes
\* with the empty result, which is the terminal result of the run unless the
\* watchdog had fired before (C2).
C13_NotifiesOnlyOnChange ==
  /\ notes > 0 =>
       args.isEvent /\ callOf(Heap).ret = "true" /\ main.pc = "returned"
  /\ ~args.isEvent => notes = 0
  /\ SameAddressesAgain =>
       /\ notes = 0
       /\ main.pc = "returned" /\ pol.pc = "idle" /\ risk.pc = "idle"
       /\ emitted \in {<< EmptyResult >>, << TimeoutResult >>}
       /\ watchdog = "armed" => emitted = << EmptyResult >>

\* the change detector of the first run reported a change, the second run
\* acquired the same addresses and ended with the empty result and no
\* notification
C13_SecondRunSilent ==
  /\ SameAddressesAgain /\ hist.prior.ret = "true"
  /\ emitted = << EmptyResult >> /\ notes = 0

(***************************************************************************)
(* IP acquisition.                                                         *)
(***************************************************************************)
\* fetchIPs has returned to the orchestrator
Acquired == main.pc \notin {"start", "delay", "fetch", "harness"}

\* fetchIPs returned without the inbound or without the outbound-v4 address
AcquisitionAbsent == Acquired /\ (~Truthy(main.inIP) \/ ~Truthy(main.outIP))

AddressRequests == {"inbound", "outbound", "outbound6"}

\* C14: when IP acquisition completes without the inbound or the outbound-v4
\* address, the orchestrator completes with the acquisition-failed result,
\* which differs from the timeout result and is no panel payload, and is the
\* result of the run unless the watchdog had fired before (C2); and nothing
\* further happens: the store is not written, no policy, risk, IP-type or
\* geo request is sent, no notification is posted.
C14_AcquisitionFailedStops ==
  /\ [](AcquisitionAbsent =>
          /\ main.pc = "returned"
          /\ emitted \in {<< AcquisitionFailed >>, << TimeoutResult >>}
          /\ watchdog = "armed" => emitted = << AcquisitionFailed >>
          /\ AcquisitionFailed # TimeoutResult /\ AcquisitionFailed.kind # "panel"
          /\ issued \subseteq AddressRequests
          /\ pol.pc = "idle" /\ risk.pc = "idle" /\ typ.pc = "idle"
          /\ \A g \in GeoSlots : geo[g].st = "none"
          /\ notes = 0)
  /\ [][AcquisitionAbsent' => store' = store]_vars

\* the inbound address came, the outbound one did not, and the run ended
\* with the acquisition-failed result
C14_OutboundMissing ==
  /\ AcquisitionAbsent /\ Truthy(main.inIP)
  /\ emitted = << AcquisitionFailed >>

\* what the race of the v6 provider against the timer gave fetchIPs
v6Answer == JsonParse(fetch.exit6.v)

\* C15: an address of the v6 provider that contains no colon is never the
\* outbound-v6 address: when the v6 answer carries such an address, "1.2.3.4"
\* for one, the acquired v6 address is null, the raw v6 payload is dropped
\* with it and no v6 geo request is sent; an acquired v6 address always
\* contains a colon and comes with the raw payload it was taken from.
C15_ColonlessV6Discarded ==
  Acquired =>
    /\ (~v6Answer.isNull /\ ~includesColon(v6Answer.ip)) =>
         /\ main.outIPv6 = JNull /\ main.v6Raw = NullExit
         /\ "v6IpInfo" \notin issued /\ "v6Bili" \notin issued
    /\ main.outIPv6 # JNull =>
         /\ includesColon(main.outIPv6)
         /\ main.v6Raw = fetch.exit6.v /\ main.outIPv6 = v6Answer.ip

\* the v6 provider answered "1.2.3.4", and the run ended with a panel that
\* has no v6 address
C15_V4FromV6Provider ==
  /\ Acquired /\ v6Answer.ip = Str("1.2.3.4")
  /\ main.outIPv6 = JNull
  /\ main.pc = "returned" /\ emitted # << >> /\ emitted[1].kind = "panel"

\* C16: the v6 request is raced against the timer.  When the timer settles
\* the race, the v6 address and the raw v6 payload are absent for the whole
\* run and no v6 geo request is sent; a v6 response that comes afterwards
\* changes nothing; and the run does not fail for it: with both v4
\* addresses acquired it goes on to the change detector and the batch, and
\* never completes with the acquisition-failed result.
C16_V6TimerWins ==
  /\ []((fetch.won = "timer" /\ Acquired) =>
          /\ main.outIPv6 = JNull /\ main.v6Raw = NullExit
          /\ "v6IpInfo" \notin issued /\ "v6Bili" \notin issued
          /\ (Truthy(main.inIP) /\ Truthy(main.outIP)) =>
               /\ emitted # << AcquisitionFailed >>
               /\ main.pc = "returned" =>
                    emitted[1].kind \in {"panel", "empty", "timeout"}
               /\ main.pc = "threw" => args.isEvent /\ store.lastEvent.k = "null")
  /\ [][(fetch.won = "timer" /\ ~fetch.v6resp /\ fetch'.v6resp) =>
          /\ fetch' = [fetch EXCEPT !.v6resp = TRUE]
          /\ UNCHANGED << store, finished, emitted, notes, main, pol, risk, typ,
                          geo, issued >>]_vars

\* the timer won, the v6 response came later, and the run ended with its
\* panel
C16_LateV6Response ==
  /\ fetch.won = "timer" /\ fetch.v6resp
  /\ main.pc = "returned" /\ emitted # << >> /\ emitted[1].kind = "panel"
  /\ main.outIPv6 = JNull

(***************************************************************************)
(* Policy discovery.                                                       *)
(***************************************************************************)
\* the answer has a request that matches the pattern among its newest n,
\* and the newest such request carries a policy name
Match(res, n) == res.pos \in 1..n /\ Truthy(res.policyName)

\* C17: getPolicy always returns a name, in a fixed order: the match among
\* the newest 10 requests of the first answer, and then no second search is
\* made; otherwise the match among the newest 5 of the second answer;
\* otherwise the persisted last-known name; and the literal "Unknown" only
\* when neither search matched and no name is persisted.
C17_PolicyFallbackOrder ==
  /\ pol.pc \in {"idle", "first", "wait", "second", "done"}
  /\ pol.pc = "done" =>
       /\ Truthy(pol.result) /\ pol.result.t = "string"
       /\ Match(pol.res1, 10) =>
            pol.result = pol.res1.policyName /\ "recent-2" \notin issued
       /\ (~Match(pol.res1, 10) /\ Match(pol.res2, 5)) =>
            pol.result = pol.res2.policyName
       /\ (~Match(pol.res1, 10) /\ ~Match(pol.res2, 5)) =>
            pol.result = IF Truthy(store.lastPolicy) THEN store.lastPolicy
                                                     ELSE Str("Unknown")
       /\ pol.result = Str("Unknown") =>
            ~Match(pol.res1, 10) /\ ~Match(pol.res2, 5) /\ store.lastPolicy = JNull

\* the first answer matched at place 11 only, the second at place 6 only,
\* and the persisted name was returned
C17_FellBackToPersisted ==
  /\ pol.pc = "done" /\ pol.res1.pos = 11 /\ pol.res2.pos = 6
  /\ pol.result = Str("Proxy-Old")

\* C18: a discovery that succeeds, at the first or at the second search,
\* persists the name it found, and over a sequence of runs a run whose two
\* searches both fail returns the name of the most recent successful
\* discovery.
C18_InheritsLastDiscovery ==
  pol.pc = "done" =>
    /\ (Match(pol.res1, 10) \/ Match(pol.res2, 5)) =>
         store.lastPolicy = pol.result
    /\ (~Match(pol.res1, 10) /\ ~Match(pol.res2, 5) /\ hist.found # JNull) =>
         pol.result = hist.found

\* an earlier run found Proxy-5 at its second search, and this run, whose
\* searches both failed, returned it
C18_InheritedFromSecondSearch ==
  /\ pol.pc = "done" /\ hist.found = Str("Proxy-5")
  /\ ~Match(pol.res1, 10) /\ ~Match(pol.res2, 5)
  /\ pol.result = Str("Proxy-5")

(***************************************************************************)
(* IP type.                                                                *)
(***************************************************************************)
\* /v1/info has been answered
InfoAnswered == typ.pc \in {"card", "done"}

\* the answer of /v1/info is a record with an isResidential field
HasResidentialField == ~typ.info.isNull /\ typ.info.isResidential # Undef

UnknownType == [ipType |-> "unknown", ipSrc |-> "unknown"]

\* C19: when the answer of Tier 1 has the isResidential field, true or
\* false, getIPType returns from Tier 1 (residential for true, datacenter
\* for false) and sends no Tier 2 request; the Tier 2 document is requested
\* exactly when the field is missing or the answer is no record.
C19_Tier1FieldDecides ==
  InfoAnswered =>
    /\ HasResidentialField =>
         /\ typ.pc = "done" /\ "ippure-card" \notin issued
         /\ typ.info.isResidential = Bool(TRUE) => typ.result.ipType = "residential"
         /\ typ.info.isResidential = Bool(FALSE) => typ.result.ipType = "datacenter"
    /\ "ippure-card" \in issued <=> ~HasResidentialField

\* Tier 1 answered isResidential: false, and the result is datacenter without
\* a Tier 2 request
C19_FalseIsSuccess ==
  /\ typ.pc = "done" /\ ~typ.info.isNull
  /\ typ.info.isResidential = Bool(FALSE)
  /\ typ.result.ipType = "datacenter" /\ "ippure-card" \notin issued

\* C20: getIPType always returns, and it returns the unknown/unknown pair
\* exactly when Tier 1 gave no isResidential field and Tier 2 no document;
\* otherwise both parts of the result are of the known kinds.
C20_UnknownWhenBothFail ==
  /\ typ.pc \in {"idle", "info", "card", "done"}
  /\ typ.pc = "done" =>
       /\ (~HasResidentialField /\ typ.html.isNull) => typ.result = UnknownType
       /\ (HasResidentialField \/ ~typ.html.isNull) =>
            /\ typ.result.ipType \in {"residential", "datacenter"}
            /\ typ.result.ipSrc \in {"broadcast", "native"}

\* Tier 1 answered a record without the field, Tier 2 nothing
C20_BothTiersFailed ==
  /\ typ.pc = "done" /\ ~typ.info.isNull /\ typ.info.isResidential = Undef
  /\ "ippure-card" \in issued /\ typ.html.isNull
  /\ typ.result = UnknownType

(***************************************************************************)
(* The persistent store within a run.                                      *)
(***************************************************************************)
\* C21: within a run each of the three persisted keys (last policy, risk
\* cache, last snapshot) is read at most once and written at most once, on
\* every path through the orchestrator and the resolvers.
C21_EachKeyOnceAtMost ==
  \A k \in DOMAIN io : io[k].r <= 1 /\ io[k].w <= 1

\* a run that read and wrote the snapshot and the risk cache and wrote the
\* last policy
C21_AllThreeKeysUsed ==
  /\ main.pc = "returned"
  /\ io.lastEvent = [r |-> 1, w |-> 1]
  /\ io.riskCache = [r |-> 1, w |-> 1]
  /\ io.lastPolicy = [r |-> 0, w |-> 1]

(***************************************************************************)
(* The geo records and the report.                                         *)
(***************************************************************************)
\* what the request g of this run is answered, parsed
answerOf(g) == JsonParse(httpJSON(wire[g], NullGeo))

\* the three normalized payloads of an address: bilibili (shape C),
\* ipinfo.io (shape B) and api.ip.sb (shape A), each taken from what the
\* provider answered for that address; there is no ipinfo.io request for the
\* inbound address
shapesOf(a) ==
  CASE a = "in" ->
         [C |-> normalizeBilibili(JsonParse(main.inRaw)), B |-> NullRecord,
          A |-> normalizeIpSb(answerOf("inSb"))]
    [] a = "out" ->
         [C |-> normalizeBilibili(answerOf("outBili")),
          B |-> normalizeIpInfo(answerOf("outIpInfo")),
          A |-> normalizeIpSb(JsonParse(main.outRaw))]
    [] OTHER ->
         [C |-> normalizeBilibili(answerOf("v6Bili")),
          B |-> normalizeIpInfo(answerOf("v6IpInfo")),
          A |-> normalizeIpSb(JsonParse(main.v6Raw))]

\* the record the orchestrator made for the address a
recordOf(a) ==
  CASE a = "in" -> geoRecords(Heap).inInfo
    [] a = "out" -> geoRecords(Heap).outInfo
    [] OTHER -> geoRecords(Heap).ipv6Info

\* the addresses of this run
addressesOf == {"in", "out"} \cup (IF Truthy(main.outIPv6) THEN {"v6"} ELSE {})

\* the batch has resolved and the orchestrator has gone on to its end
Reconciled == main.pc = "returned" /\ issued \cap GeoSlots # {}

\* C22: the reconciled records do not depend on the order in which the
\* requests of the batch are answered.  Whatever the order, in both
\* languages and with or without a v6 address, every answered request holds
\* at its place of the array what its own provider answered, and the inbound,
\* outbound and v6 records are those made of the payloads of their own
\* address (the v6 record is null without a v6 address).
C22_OrderIndependent ==
  /\ \A g \in GeoSlots : geo[g].st = "got" => geo[g].v = httpJSON(wire[g], NullGeo)
  /\ Reconciled =>
       /\ \A a \in addressesOf :
            recordOf(a) = reconcile(shapesOf(a).C, shapesOf(a).B, shapesOf(a).A,
                                    args.lang = "zh")
       /\ ~Truthy(main.outIPv6) => recordOf("v6") = NullRecord

\* a run in local-language mode with a v6 address, all five requests
\* answered, with payloads that differ between the outbound and the v6
\* address
C22_FiveRequestsReconciled ==
  /\ Reconciled /\ args.lang = "zh" /\ Truthy(main.outIPv6)
  /\ \A g \in GeoSlots : geo[g].st = "got"
  /\ wire["outIpInfo"] # wire["v6IpInfo"] /\ wire["outBili"] # wire["v6Bili"]
  /\ recordOf("out") # recordOf("v6")

\* the lines of the outbound section of the panel that was emitted, and
\* their labels
outboundSection == SubSeq(emitted[1].content, 9, Len(emitted[1].content))

outboundLabels == [i \in 1..Len(outboundSection) |-> outboundSection[i].k]

\* the location and the carrier the report shows for a record
locationOf(info) ==
  formatGeo(info.country_code,
            << info.city, info.region,
               IF args.lang = "zh" THEN info.country_name ELSE info.country_code >>)

carrierOf(info) == orElse(info.org, Str("Unknown"))

\* C23: with a v6 address, the outbound section of the panel is one block
\* (the two addresses, then one location and one carrier, those of the v4
\* record) exactly when the v4 and the v6 record have the same country code
\* and the same carrier string; otherwise it is two blocks, labelled 4 and 6,
\* each with the location and the carrier of its own record.
C23_CollapseIffSame ==
  (Reconciled /\ Truthy(main.outIPv6) /\ emitted[1].kind = "panel") =>
    LET out  == recordOf("out")
        v6   == recordOf("v6")
        same == out.country_code = v6.country_code /\ out.org = v6.org
    IN  /\ same =>
             /\ outboundLabels = << "outIP4", "outIP6", "geo", "org" >>
             /\ outboundSection[3].v = locationOf(out)
             /\ outboundSection[4].v = carrierOf(out)
        /\ ~same =>
             /\ outboundLabels = << "outIP4", "geo4", "org4", "", "outIP6", "geo6", "org6" >>
             /\ outboundSection[2].v = locationOf(out)
             /\ outboundSection[3].v = carrierOf(out)
             /\ outboundSection[6].v = locationOf(v6)
             /\ outboundSection[7].v = carrierOf(v6)

\* a panel whose v4 and v6 records have the same country code and different
\* carriers, shown as two blocks
C23_SameCountryOtherCarrier ==
  /\ Reconciled /\ Truthy(main.outIPv6) /\ emitted[1].kind = "panel"
  /\ recordOf("out").country_code = recordOf("v6").country_code
  /\ Truthy(recordOf("out").country_code)
  /\ recordOf("out").org # recordOf("v6").org
  /\ Len(outboundSection) = 7

\* C24: in local-language mode, for every address whose bilibili payload
\* (shape C) normalizes, the carrier of the record is that of shape C when
\* the country name of shape C is the home country; otherwise it is the
\* carrier of ipinfo.io (shape B) when that one gives a carrier, else the
\* carrier of api.ip.sb (shape A), and it is empty when neither gives one.
C24_CarrierByHomeCountry ==
  (Reconciled /\ args.lang = "zh") =>
    \A a \in addressesOf :
      LET s == shapesOf(a)
      IN  ~s.C.isNull =>
            recordOf(a).org =
              IF s.C.country_name = Str("China") THEN s.C.org
              ELSE IF Truthy(s.B.org) THEN s.B.org
              ELSE IF Truthy(s.A.org) THEN s.A.org
              ELSE Str("")

\* an outbound address abroad for which ipinfo.io answered with an
\* autonomous-system number alone: its carrier is that of api.ip.sb
C24_CarrierFromShapeA ==
  /\ Reconciled /\ args.lang = "zh"
  /\ ~shapesOf("out").C.isNull
  /\ shapesOf("out").C.country_name # Str("China")
  /\ ~shapesOf("out").B.isNull /\ shapesOf("out").B.org = Str("")
  /\ recordOf("out").org = Str("Sb Net")

\* C25: in local-language mode, on the inbound, the outbound-v4 and the
\* outbound-v6 address, the country code of the record is that of ipinfo.io
\* (shape B) when it has one, else that of api.ip.sb (shape A) when it has
\* one, and there is none when neither has one.
C25_CountryCodeBackfilled ==
  (Reconciled /\ args.lang = "zh") =>
    \A a \in addressesOf :
      LET s == shapesOf(a)
      IN  IF Truthy(s.B.country_code) THEN recordOf(a).country_code = s.B.country_code
          ELSE IF Truthy(s.A.country_code) THEN recordOf(a).country_code = s.A.country_code
          ELSE ~Truthy(recordOf(a).country_code)

\* a v6 address whose bilibili payload normalizes and whose ipinfo.io request
\* failed: the country code is that of api.ip.sb
C25_CodeFromShapeA ==
  /\ Reconciled /\ args.lang = "zh" /\ Truthy(main.outIPv6)
  /\ ~shapesOf("v6").C.isNull /\ shapesOf("v6").B.isNull
  /\ recordOf("v6").country_code = Str("DE")

\* the first level of CONFIG.riskLevels whose upper bound is at least k
firstBucket(k) ==
  riskLevels[CHOOSE i \in 1..Len(riskLevels) :
               /\ riskLevels[i].max >= k
               /\ \A j \in 1..(i - 1) : riskLevels[j].max < k]

\* C26: the upper bounds of the levels are 15, 25, 40, 50, 70 and 100; for
\* the integer score in 0..100 that the resolver returned, riskText gives the
\* label and the color of the first level whose upper bound is at least the
\* score, so that 12 is in the level of bound 15; and the panel that is
\* emitted has the color of that level as its accent color and its label in
\* the risk line.
C26_FirstBucketColorsPanel ==
  /\ [i \in 1..Len(riskLevels) |-> riskLevels[i].max] = << 15, 25, 40, 50, 70, 100 >>
  /\ riskText(Num(12)) = [label |-> riskLevels[1].label, color |-> riskLevels[1].color]
  /\ (risk.pc = "done" /\ risk.result.score.t = "number"
        /\ risk.result.score.n \in BatchScores) =>
       LET level == firstBucket(risk.result.score.n)
       IN  /\ riskText(risk.result.score) = [label |-> level.label, color |-> level.color]
           /\ (Reconciled /\ emitted[1].kind = "panel") =>
                /\ emitted[1].color = level.color
                /\ emitted[1].content[1].v.label = level.label

\* the panel of a run whose risk score is 12
C26_PanelOfScore12 ==
  /\ Reconciled /\ emitted[1].kind = "panel"
  /\ risk.result.score = Num(12)
  /\ emitted[1].color = "#0D6E3D"

(***************************************************************************)
(* The trigger of the run and the order of its stages.                     *)
(***************************************************************************)
\* C27: in a run that is not event-triggered (a panel or a request) the
\* snapshot key is neither read nor written and its text never changes;
\* checkIPChange returns true, so that the batch is started whenever both
\* addresses were acquired; no notification is posted, and what the
\* orchestrator hands to done at the end of such a run is the panel, which is
\* the result of the run unless the watchdog had fired before (C2).
C27_SnapshotOnlyInEventMode ==
  /\ [](~args.isEvent =>
          /\ io.lastEvent = [r |-> 0, w |-> 0]
          /\ notes = 0
          /\ (Acquired /\ ~AcquisitionAbsent) =>
               main.pc \in {"batch", "returned"} /\ pol.pc # "idle"
          /\ (main.pc = "returned" /\ ~AcquisitionAbsent) =>
               /\ emitted[1].kind \in {"panel", "timeout"}
               /\ watchdog = "armed" => emitted = << emitted[1] >> /\ emitted[1].kind = "panel")
  /\ [][~args.isEvent => store'.lastEvent = store.lastEvent]_vars

\* a panel run whose addresses are those of the persisted snapshot (an event
\* run would stop there), ended with the panel
C27_PanelRunKeepsSnapshot ==
  /\ ~args.isEvent /\ main.pc = "returned"
  /\ emitted[1].kind = "panel"
  /\ SnapshotIs(store.lastEvent, main.inIP, main.outIP, main.outIPv6)
  /\ io.lastEvent = [r |-> 0, w |-> 0]

\* the run stopped at line 526: checkIPChange returned false
ShortCircuited == callOf(Heap).some /\ callOf(Heap).ret = "false"

\* C28: a policy, risk, IP-type or geo request is issued only when IP
\* acquisition has completed with both addresses and the change detector has
\* returned true (in an event run it has then read the snapshot and written
\* the new one).  An event run whose addresses equal the persisted snapshot
\* stops when acquisition completes: it completes with the empty result,
\* issues no further request, posts no notification, and from then on the
\* risk cache, the last policy and the snapshot keep their text.
C28_StagesOrdered ==
  /\ [](~(issued \subseteq AddressRequests) =>
          /\ Acquired /\ fetch.exit6.got
          /\ Truthy(main.inIP) /\ Truthy(main.outIP)
          /\ args.isEvent =>
               /\ io.lastEvent = [r |-> 1, w |-> 1]
               /\ SnapshotIs(store.lastEvent, main.inIP, main.outIP, main.outIPv6))
  /\ [][(/\ args.isEvent /\ main.pc = "fetch" /\ Acquired' /\ ~AcquisitionAbsent'
         /\ SnapshotIs(store.lastEvent, main'.inIP, main'.outIP, main'.outIPv6)) =>
          /\ ShortCircuited' /\ main'.pc = "returned"
          /\ store' = store
          /\ ~finished => emitted' = << EmptyResult >>]_vars
  /\ [](ShortCircuited =>
          /\ issued \subseteq AddressRequests
          /\ pol.pc = "idle" /\ risk.pc = "idle" /\ typ.pc = "idle"
          /\ \A g \in GeoSlots : geo[g].st = "none"
          /\ \A k \in DOMAIN io : io[k].w = 0
          /\ notes = 0)
  /\ [][ShortCircuited => store' = store]_vars

\* an event run that found the addresses of the snapshot and stopped with the
\* empty result
C28_UnchangedRunStopped ==
  /\ args.isEvent /\ ShortCircuited
  /\ emitted = << EmptyResult >>
  /\ issued = AddressRequests

(***************************************************************************)
(* Tier 1 of the risk resolver.                                            *)
(***************************************************************************)
Tier23Requests == {"proxycheck", "scamalytics"}

\* C29: once Tier 1 has answered, the call has succeeded at Tier 1 exactly
\* when the answer has a truthy success flag and a fraud score that is
\* present.  Then the entry {address, score, IPQS} is in the cache, it is
\* what the call returned, and neither Tier 2 nor Tier 3 is requested.  On
\* every other answer both are requested; the two requests are always sent
\* together, and a call that asked them returns only when both have
\* answered.
C29_Tier1SuccessOrBothTiers ==
  /\ risk.data.got =>
       LET d  == risk.data.v
           ok == ~d.isNull /\ d.success /\ d.fraud_score # Undef
       IN  /\ ok =>
                /\ risk.pc = "done"
                /\ risk.result = [score |-> d.fraud_score, source |-> Str("IPQS")]
                /\ store.riskCache =
                     CacheText("object", Str(risk.ip), d.fraud_score, Str("IPQS"))
                /\ issued \cap Tier23Requests = {}
           /\ ~ok => Tier23Requests \subseteq issued /\ risk.result.source # Str("IPQS")
  /\ issued \cap Tier23Requests \in {{}, Tier23Requests}
  /\ (risk.pc = "done" /\ issued \cap Tier23Requests # {}) =>
       risk.proxyData.got /\ risk.scamHtml.got

\* Tier 1 answered with the success flag and no fraud score: both other
\* tiers were asked
C29_FlagWithoutScore ==
  /\ risk.data.got /\ ~risk.data.v.isNull
  /\ risk.data.v.success /\ risk.data.v.fraud_score = Undef
  /\ Tier23Requests \subseteq issued

(***************************************************************************)
(* After the timeout.                                                      *)
(***************************************************************************)
\* C30: once the timeout result has been emitted, no notification is posted
\* any more.  This does not hold: done() is guarded by finished, the call of
\* sendNetworkChangeNotification at line 607 is not, and an event run whose
\* batch resolves after the watchdog has fired posts its notification.
C30_SilentAfterTimeout ==
  [][(emitted # << >> /\ emitted[1] = TimeoutResult) => notes' = notes]_vars

(***************************************************************************)
(* A change that was recorded is a change that was notified.               *)
(***************************************************************************)
\* C31: over the runs of the script, a run that has written a new snapshot
\* has posted its notification by the time the host starts the next run
\* (the only step that takes finished back to FALSE).  This does not hold:
\* checkIPChange writes the snapshot at line 423, before the batch, and the
\* notification is posted at line 607, after it; when the watchdog ends the
\* run in between, the snapshot stays and the next run finds its addresses
\* equal to it.
C31_WrittenChangeNotified ==
  [][(finished /\ ~finished' /\ args.isEvent /\ io.lastEvent.w > 0) => notes > 0]_vars

(***************************************************************************)
(* What getPolicy writes.                                                  *)
(***************************************************************************)
\* C32: getPolicy writes the last-policy key only with a name it has just
\* found in the recent-request log: a step writes the key only when it is
\* the answer of a search that matched, and what it writes is the name of
\* that match; a call whose two searches both failed has not written the
\* key, which still holds what it held before the call, whether the call
\* returned the persisted name or "Unknown".
C32_WritesOnlyFoundName ==
  [][/\ (io'.lastPolicy.w > io.lastPolicy.w \/ store'.lastPolicy # store.lastPolicy) =>
          \/ /\ pol.pc = "first" /\ Match(pol'.res1, FirstSearchLimit)
             /\ store'.lastPolicy = pol'.res1.policyName
          \/ /\ pol.pc = "second" /\ Match(pol'.res2, SecondSearchLimit)
             /\ store'.lastPolicy = pol'.res2.policyName
     /\ (pol'.pc = "done" /\ ~Match(pol'.res1, FirstSearchLimit)
           /\ ~Match(pol'.res2, SecondSearchLimit)) =>
          /\ io'.lastPolicy.w = 0
          /\ store'.lastPolicy = hist'.found
          /\ store'.lastPolicy # Str("Unknown")]_vars

\* no name was persisted, both searches failed and the call returned
\* "Unknown": the key is still empty and was read once
C32_UnknownNotPersisted ==
  /\ pol.pc = "done" /\ pol.result = Str("Unknown")
  /\ ~Match(pol.res1, FirstSearchLimit) /\ ~Match(pol.res2, SecondSearchLimit)
  /\ store.lastPolicy = JNull
  /\ io.lastPolicy = [r |-> 1, w |-> 0]

(***************************************************************************)
(* The current resolver against the sequential chain.                      *)
(***************************************************************************)
\* what Tier 2 and Tier 3 may have answered as far as the call knows: the
\* answer it got, or any answer when the request was not made
tier2Outcomes ==
  IF risk.proxyData.got THEN {risk.proxyData.v}
  ELSE {httpJSON(b, NullProxy) : b \in ProxyBodies}

tier3Outcomes ==
  IF risk.scamHtml.got THEN {risk.scamHtml.v}
  ELSE {httpRaw(b) : b \in ScamBodies}

\* what the sequential chain returns for these outcomes
sequentialResults ==
  {getRiskScore_earlier(args.ipqsKey, risk.ip, risk.data.v, p, s) :
     p \in tier2Outcomes, s \in tier3Outcomes}

\* the tier that decided the call reported null as its score
nullScoreReported ==
  \/ risk.data.got /\ ipqsSucceeded(risk.data.v) /\ risk.data.v.fraud_score = JNull
  \/ risk.proxyData.got /\ tier2Risk = JNull

=============================================================================
